---------------------------- MODULE Spec2Model ----------------------------
(***************************************************************************)
(* Aggregation pipeline of Project-Wrapped (server/services/azure-devops.ts *)
(* and its earlier variants): fetchAzureDevOpsData applied to already       *)
(* fetched commit, pull-request and work-item collections.                  *)
(*                                                                          *)
(* Representation.                                                          *)
(*   - A date string "YYYY-MM-DD" is the tuple <<y, m, d>>; a timestamp     *)
(*     "YYYY-MM-DDTHH:00:00Z" is the record [date |-> <<y,m,d>>, hour |-> h].*)
(*   - Date.getTime() is counted in hours since 1970-01-01T00:00Z (the      *)
(*     millisecond value divided by 3,600,000; timestamps are whole hours). *)
(*   - A JavaScript string that the code splits is a sequence of one-       *)
(*     character strings; an optional field is None or Some(value).         *)
(*   - A Map is the sequence of its entries in insertion order.             *)
(***************************************************************************)
EXTENDS Integers, Sequences, FiniteSets, TLC

VARIABLES
    commits,          \* AzureDevOpsCommit[]      (input collection)
    pullRequests,     \* AzureDevOpsPullRequest[] (input collection)
    workItems,        \* AzureDevOpsWorkItem[]    (input collection)
    dateFrom,         \* config.dateFrom (date string or None)
    dateTo,           \* config.dateTo   (date string or None)
    prComments,       \* result of fetchPullRequestComments
    fileChanges,      \* result of fetchCommitChanges
    today,            \* the date of Date.now()
    variant,          \* the source file whose fetchAzureDevOpsData runs
    server,           \* what the Azure DevOps server answers, while it is asked
    savedWrapped,     \* the rows of the table saved_wrapped
    calls,            \* the calls of the storage that have returned, with results
    pc,               \* position inside fetchAzureDevOpsData
    codeChanges,      \* const codeChanges
    prMergeStats,     \* const prMergeStats
    activityPattern,  \* const activityPattern
    streakData,       \* const streakData
    contributorMap,   \* contributorMap of aggregateContributorStats, at its return
    contributorStats, \* const contributorStats
    moduleMap,        \* moduleMap of aggregateModuleStats, at its return
    moduleStats,      \* const moduleStats
    top5,             \* const top5
    highlights,       \* const highlights
    funFacts,         \* const funFacts
    milestones,       \* const milestones
    totalStats,       \* const totalStats
    runs,             \* how many times the Aggregator has run on the collections
    firstRun,         \* the Aggregator's output of its first run
    done              \* the fetches of Promise.all that have settled; the statements
                      \* that have run, when run out of source order

inputVars == <<commits, pullRequests, workItems, dateFrom, dateTo, prComments,
               fileChanges, today, variant, server, savedWrapped, calls>>

outputVars == <<prMergeStats, activityPattern, streakData, codeChanges, contributorMap,
                contributorStats, moduleMap, moduleStats, top5, highlights,
                funFacts, milestones, totalStats>>

vars == <<inputVars, outputVars, pc, runs, firstRun, done>>

\* An optional value: undefined is the empty set, a present value v is {v}.
None == {}

Some(v) == {v}

Val(o) == CHOOSE v \in o : TRUE

-----------------------------------------------------------------------------
(* Generic helpers: Array.prototype.reduce / sort / slice, Math.max.        *)

\* s.reduce((a, b) => a + b, 0); the array is halved so that long arrays do
\* not nest deeply.
RECURSIVE SumSeq(_)
SumSeq(s) ==
    IF s = <<>> THEN 0
    ELSE IF Len(s) = 1 THEN s[1]
    ELSE SumSeq(SubSeq(s, 1, Len(s) \div 2)) + SumSeq(SubSeq(s, Len(s) \div 2 + 1, Len(s)))

Max2(a, b) == IF a >= b THEN a ELSE b

MaxOfSeq(s) == CHOOSE x \in {s[i] : i \in 1..Len(s)} :
                   \A j \in 1..Len(s) : s[j] <= x

\* Array.prototype.indexOf, 0-based, for a value known to occur.
IndexOf(s, v) == (CHOOSE i \in 1..Len(s) : s[i] = v /\ \A j \in 1..(i-1) : s[j] # v) - 1

\* Array.prototype.slice(0, n)
Slice(s, n) == SubSeq(s, 1, IF Len(s) < n THEN Len(s) ELSE n)

\* Array.prototype.sort(cmp): the engine's sort is stable, so an element moves
\* in front of another only when cmp puts it strictly first.
\* (The position of every element is computed once, as an array.)
StableSort(s, Cmp(_, _)) ==
    LET n == Len(s)
        rank(i) == Cardinality({j \in 1..n :
                       \/ Cmp(s[j], s[i]) < 0
                       \/ (Cmp(s[j], s[i]) = 0 /\ j < i)}) + 1
        position == SubSeq([i \in 1..n |-> rank(i)], 1, n)
    IN  SubSeq([k \in 1..n |-> s[CHOOSE i \in 1..n : position[i] = k]], 1, n)

\* Array.prototype.map
MapSeq(s, F(_)) == SubSeq([i \in 1..Len(s) |-> F(s[i])], 1, Len(s))

Range(s) == {s[i] : i \in 1..Len(s)}

\* All sequences over S of length 0..n.
SeqsUpTo(S, n) == UNION {[1..k -> S] : k \in 0..n}

-----------------------------------------------------------------------------
(* Dates: new Date(str).getTime(), str.split("T")[0], default string sort.  *)

IsLeapYear(y) == (y % 4 = 0 /\ y % 100 # 0) \/ y % 400 = 0

DaysInMonth(y, m) ==
    IF m = 2 THEN (IF IsLeapYear(y) THEN 29 ELSE 28)
    ELSE IF m \in {4, 6, 9, 11} THEN 30 ELSE 31

RECURSIVE DaysBeforeMonth(_, _)
DaysBeforeMonth(y, m) ==
    IF m = 1 THEN 0 ELSE DaysBeforeMonth(y, m - 1) + DaysInMonth(y, m - 1)

\* Number of leap years in 1970..y-1.
LeapsBefore(y) ==
    ((y - 1) \div 4 - (y - 1) \div 100 + (y - 1) \div 400) - (1969 \div 4 - 1969 \div 100 + 1969 \div 400)

\* Days from 1970-01-01 to the date string d, parsed as UTC midnight.
DayNumber(d) ==
    365 * (d[1] - 1970) + LeapsBefore(d[1]) + DaysBeforeMonth(d[1], d[2]) + d[3] - 1

\* new Date("YYYY-MM-DD").getTime(), in hours.
DateTime(d) == 24 * DayNumber(d)

\* new Date("YYYY-MM-DDTHH:00:00Z").getTime(), in hours.
GetTime(ts) == 24 * DayNumber(ts.date) + ts.hour

\* author.date.split("T")[0]
DatePart(ts) == ts.date

\* new Date(ts).getHours()
GetHours(ts) == ts.hour

\* The week counted from Monday.
GetDay_MondayFirst(ts) == (DayNumber(ts.date) + 3) % 7

\* new Date(ts).getDay(): 1970-01-01 was a Thursday (4).
GetDay(ts) == (DayNumber(ts.date) + 4) % 7

\* The date strings of the years the model draws from.
CalendarDates ==
    {d \in (2023..2025) \X (1..12) \X (1..31) : d[3] <= DaysInMonth(d[1], d[2])}

\* new Date(hours).toISOString().split("T")[0]
ISODate(hours) == CHOOSE d \in CalendarDates : DayNumber(d) = hours \div 24

\* The date n days after d.
AddDays(d, n) == ISODate(DateTime(d) + 24 * n)

\* Default comparison of two "YYYY-MM-DD" strings (zero padded, so by
\* character from the left is by year, then month, then day).
DateStrCmp(a, b) ==
    IF a[1] # b[1] THEN a[1] - b[1]
    ELSE IF a[2] # b[2] THEN a[2] - b[2]
    ELSE a[3] - b[3]

-----------------------------------------------------------------------------
(* Strings that the code splits or truncates.                               *)

General == <<"G", "e", "n", "e", "r", "a", "l">>

InitialCommit == <<"I", "n", "i", "t", "i", "a", "l", " ", "c", "o", "m", "m", "i", "t">>

Backslash == "\\"

\* String.prototype.split(sep) for a one-character separator.
RECURSIVE Split(_, _)
Split(s, sep) ==
    IF \A i \in 1..Len(s) : s[i] # sep THEN <<s>>
    ELSE LET k == CHOOSE i \in 1..Len(s) : s[i] = sep /\ \A j \in 1..(i-1) : s[j] # sep
         IN  <<SubSeq(s, 1, k - 1)>> \o Split(SubSeq(s, k + 1, Len(s)), sep)

\* Array.prototype.pop() of a non-empty array: its last element.
Pop(a) == a[Len(a)]

\* String.prototype.substring(0, n)
Substring(s, n) == SubSeq(s, 1, IF Len(s) < n THEN Len(s) ELSE n)

\* JavaScript truthiness of an optional string / of an optional number.
TruthyStr(o) == o # None /\ Val(o) # <<>>

TruthyNum(o) == o # None /\ Val(o) # 0

\* o || dflt
StrOr(o, dflt) == IF TruthyStr(o) THEN Val(o) ELSE dflt

NumOr(o, dflt) == IF TruthyNum(o) THEN Val(o) ELSE dflt

\* Math.round(a / b) for a >= 0, b > 0: the nearest integer, halves upward.
RoundDiv(a, b) == (2 * a + b) \div (2 * b)

-----------------------------------------------------------------------------
(* Numbers are IEEE 754 doubles. A positive double is written in digits of  *)
(* 13 bits, most significant first, with the number of its bits that lie    *)
(* behind the binary point: its value is the number the digits spell        *)
(* divided by 2^scale, and it has at most 53 significant bits. Every        *)
(* operation rounds its exact result to the nearest double, ties to the     *)
(* even significand.                                                        *)

SignificandBits == 53

DigitBits == 13

DigitBase == 2^DigitBits

RECURSIVE BitLength(_)
BitLength(n) == IF n = 0 THEN 0 ELSE 1 + BitLength(n \div 2)

RECURSIVE DigitsToNat(_)
DigitsToNat(digits) ==
    IF digits = <<>> THEN 0
    ELSE DigitBase * DigitsToNat(SubSeq(digits, 1, Len(digits) - 1)) + digits[Len(digits)]

\* The digits of a number given in places that may exceed the base
RECURSIVE Carry(_, _)
Carry(places, carry) ==
    IF places = <<>> THEN IF carry = 0 THEN <<>> ELSE <<carry>>
    ELSE LET sum == places[Len(places)] + carry
         IN  Carry(SubSeq(places, 1, Len(places) - 1), sum \div DigitBase)
                 \o <<sum % DigitBase>>

\* The exact value digits / 2^scale, or a little more when sticky, rounded to
\* a double. No more than one digit is dropped.
RoundToDouble(digits, scale, sticky) ==
    LET length  == DigitBits * (Len(digits) - 1) + BitLength(digits[1])
        dropped == length - SignificandBits
        last    == Len(digits)
        low     == DigitBase * digits[last - 1] + digits[last]
        half    == 2^(dropped - 1)
        rest    == low % (2 * half)
        odd     == (low \div (2 * half)) % 2 = 1
        up      == rest > half \/ (rest = half /\ (sticky \/ odd))
        rounded == Carry(SubSeq(digits, 1, last - 2)
                             \o <<0, low - rest + (IF up THEN 2 * half ELSE 0)>>, 0)
        whole   == rounded[Len(rounded)] = 0 /\ scale >= DigitBits
    IN  IF dropped <= 0 THEN [digits |-> digits, scale |-> scale]
        ELSE IF whole
        THEN [digits |-> SubSeq(rounded, 1, Len(rounded) - 1), scale |-> scale - DigitBits]
        ELSE [digits |-> rounded, scale |-> scale]

\* The first count digits of r / n behind the point, for r < n
RECURSIVE QuotientDigits(_, _, _)
QuotientDigits(r, n, count) ==
    IF count = 0 THEN <<>>
    ELSE <<(DigitBase * r) \div n>> \o QuotientDigits((DigitBase * r) % n, n, count - 1)

\* What is left of r / n behind those digits
RECURSIVE QuotientRest(_, _, _)
QuotientRest(r, n, count) ==
    IF count = 0 THEN r ELSE QuotientRest((DigitBase * r) % n, n, count - 1)

\* The number of doublings that bring m up to n
RECURSIVE Doublings(_, _)
Doublings(m, n) == IF m >= n THEN 0 ELSE 1 + Doublings(2 * m, n)

\* m / n for integers 0 < m <= n < 2^17: the leading bit, then five digits of
\* which the rounding drops the last
Divide(m, n) ==
    LET shift == Doublings(m, n)
        first == m * 2^shift - n
        count == (SignificandBits - 1) \div DigitBits + 1
    IN  RoundToDouble(<<1>> \o QuotientDigits(first, n, count),
                      shift + DigitBits * count,
                      QuotientRest(first, n, count) # 0)

\* x * k for a double x > 0 and an integer 0 < k < 2^13
Times(x, k) ==
    RoundToDouble(Carry([i \in 1..Len(x.digits) |-> x.digits[i] * k], 0), x.scale, FALSE)

\* Math.round(x) for a double 0 < x < 2^17: the nearest integer, halves upward
MathRound(x) ==
    LET behind == x.scale \div DigitBits
        bits   == x.scale % DigitBits
        kept   == Len(x.digits) - behind
        front  == DigitsToNat(SubSeq(x.digits, 1, kept))
        half   == IF bits > 0 THEN (front \div 2^(bits - 1)) % 2
                  ELSE IF behind > 0 THEN x.digits[kept + 1] \div (DigitBase \div 2)
                  ELSE 0
    IN  IF kept < 0 THEN 0 ELSE front \div 2^bits + half

-----------------------------------------------------------------------------
(* calculatePrMergeStats                                                    *)

HoursPerYear == 8760

HoursToMerge(pr) == GetTime(Val(pr.closedDate)) - GetTime(pr.creationDate)

CountsTowardMergeTime_UpToAYear(pr) ==
    /\ pr.status = "completed"
    /\ pr.closedDate # None
    /\ HoursToMerge(pr) > 0
    /\ HoursToMerge(pr) <= HoursPerYear

CountsTowardMergeTime(pr) ==
    /\ pr.status = "completed"
    /\ pr.closedDate # None
    /\ HoursToMerge(pr) > 0
    /\ HoursToMerge(pr) < HoursPerYear

\* const mergeTimes, in push order
MergeTimes(prs) == MapSeq(SelectSeq(prs, CountsTowardMergeTime), HoursToMerge)

\* The array pushed into mergeTimeByAuthor for one author
MergeTimesOf(prs, author) ==
    MapSeq(SelectSeq(prs, LAMBDA pr : CountsTowardMergeTime(pr) /\ pr.createdBy = author),
           HoursToMerge)

calculatePrMergeStats(prs) ==
    LET mergeTimes == MergeTimes(prs)
    IN  [mergeTimeByAuthor |->
             [a \in {pr.createdBy : pr \in {x \in Range(prs) : CountsTowardMergeTime(x)}}
                 |-> MergeTimesOf(prs, a)],
         avgMergeTimeHours |->
             IF Len(mergeTimes) > 0 THEN RoundDiv(SumSeq(mergeTimes), Len(mergeTimes)) ELSE 0,
         fastestMergeTimeHours |->
             IF Len(mergeTimes) > 0
             THEN CHOOSE x \in Range(mergeTimes) : \A y \in Range(mergeTimes) : x <= y
             ELSE 0]

-----------------------------------------------------------------------------
(* calculateActivityPattern                                                 *)

dayNames == <<"Sunday", "Monday", "Tuesday", "Wednesday", "Thursday", "Friday", "Saturday">>

Count(s, P(_)) == Len(SelectSeq(s, P))

\* The evening reaching through hour 21.
PeakProductivityTime_EveningThrough21(busiestHour) ==
    IF busiestHour >= 5 /\ busiestHour < 12 THEN "Morning"
    ELSE IF busiestHour >= 12 /\ busiestHour < 17 THEN "Afternoon"
    ELSE IF busiestHour >= 17 /\ busiestHour <= 21 THEN "Evening"
    ELSE "Night"

\* The label chosen from the busiest hour.
PeakProductivityTime(busiestHour) ==
    IF busiestHour >= 5 /\ busiestHour < 12 THEN "Morning"
    ELSE IF busiestHour >= 12 /\ busiestHour < 17 THEN "Afternoon"
    ELSE IF busiestHour >= 17 /\ busiestHour < 21 THEN "Evening"
    ELSE "Night"

calculateActivityPattern(cs) ==
    LET hourlyDistribution == [h \in 1..24 |-> Count(cs, LAMBDA c : GetHours(c.author.date) = h - 1)]
        dailyDistribution  == [d \in 1..7 |-> Count(cs, LAMBDA c : GetDay(c.author.date) = d - 1)]
        busiestHour        == IndexOf(hourlyDistribution, MaxOfSeq(hourlyDistribution))
        busiestDayIndex    == IndexOf(dailyDistribution, MaxOfSeq(dailyDistribution))
    IN  [hourlyDistribution |-> hourlyDistribution,
         dailyDistribution |-> dailyDistribution,
         busiestHour |-> busiestHour,
         busiestDay |-> dayNames[busiestDayIndex + 1],
         peakProductivityTime |-> PeakProductivityTime(busiestHour)]

-----------------------------------------------------------------------------
(* calculateStreaks                                                         *)

\* Keys of a Map / values of a Set filled while walking s, in insertion order.
Distinct(s) ==
    MapSeq(SelectSeq([i \in 1..Len(s) |-> i],
                     LAMBDA i : \A j \in 1..(i - 1) : s[j] # s[i]),
           LAMBDA i : s[i])

\* An array of the author's commit dates in place of the Set: one entry per
\* commit, so that a date with two commits appears twice.
DatesOf_PerCommit(cs, author) ==
    MapSeq(SelectSeq(cs, LAMBDA c : c.author.name = author),
           LAMBDA c : DatePart(c.author.date))

\* commitsByAuthorAndDate.get(author), as an array in insertion order
DatesOf(cs, author) ==
    Distinct(MapSeq(SelectSeq(cs, LAMBDA c : c.author.name = author),
                    LAMBDA c : DatePart(c.author.date)))

\* diffDays === 1, in hours
OneDayApart(prevDate, currDate) == DateTime(currDate) - DateTime(prevDate) = 24

\* The for loop over sortedDates, from index i (1-based) with the running
\* currentStreak and maxStreak.
RECURSIVE StreakLoop(_, _, _, _)
StreakLoop(sortedDates, i, currentStreak, maxStreak) ==
    IF i > Len(sortedDates) THEN maxStreak
    ELSE IF OneDayApart(sortedDates[i - 1], sortedDates[i])
         THEN StreakLoop(sortedDates, i + 1, currentStreak + 1,
                         Max2(maxStreak, currentStreak + 1))
         ELSE StreakLoop(sortedDates, i + 1, 1, maxStreak)

\* The loop with maxStreak starting at 0.
MaxStreak_FromZero(dates) == StreakLoop(StableSort(dates, DateStrCmp), 2, 1, 0)

MaxStreak(dates) == StreakLoop(StableSort(dates, DateStrCmp), 2, 1, 1)

Authors(cs) == Distinct(MapSeq(cs, LAMBDA c : c.author.name))

calculateStreaks(cs) ==
    LET authors == Authors(cs)
        streaksByAuthor == [a \in Range(authors) |-> MaxStreak(DatesOf(cs, a))]
    IN  [longestStreak |->
             IF authors = <<>> THEN 0
             ELSE MaxOfSeq(MapSeq(authors, LAMBDA a : streaksByAuthor[a])),
         streaksByAuthor |-> streaksByAuthor]

-----------------------------------------------------------------------------
(* aggregateCodeChanges                                                     *)

aggregateCodeChanges(changes) ==
    [linesAdded |->
         SumSeq(MapSeq(SelectSeq(changes, LAMBDA ch : ch.changeType \in {"add", "edit"}),
                       LAMBDA ch : NumOr(ch.contentLength, 0))),
     linesDeleted |-> 0,
     filesChanged |->
         Cardinality({Val(ch.path) : ch \in {x \in Range(changes) : TruthyStr(x.path)}})]

-----------------------------------------------------------------------------
(* aggregateContributorStats                                                *)

TopContributors == 10

NewContributor(name) ==
    [name |-> name, commits |-> 0, pullRequestsOpened |-> 0, pullRequestsReviewed |-> 0,
     commentsWritten |-> 0, bugsFixed |-> 0, storyPointsDone |-> 0, linesAdded |-> 0,
     linesDeleted |-> 0, avgPrMergeTimeHours |-> 0, longestStreak |-> 0, favoriteHour |-> 0]

\* map.has(name)
Has(map, name) == \E i \in 1..Len(map) : map[i].name = name

\* if (!map.has(name)) map.set(name, fresh)
Ensure(map, name, fresh) == IF Has(map, name) THEN map ELSE Append(map, fresh)

\* map.get(name)
Get(map, name) == map[CHOOSE i \in 1..Len(map) : map[i].name = name]

\* Replace the entry of name by F(entry).
Update(map, name, F(_)) ==
    LET i == CHOOSE k \in 1..Len(map) : map[k].name = name
    IN  SubSeq(map, 1, i - 1) \o <<F(map[i])>> \o SubSeq(map, i + 1, Len(map))

\* for (const x of s) acc = F(acc, x): the elements are folded in from left to
\* right.  The array is halved, and the value reached after the first half is
\* computed (by the comparison) before the second half starts, so that long
\* arrays do not nest deeply in the model checker.
RECURSIVE FoldLeft(_, _, _)
FoldLeft(F(_, _), acc, s) ==
    IF s = <<>> THEN acc
    ELSE IF Len(s) = 1 THEN F(acc, s[1])
    ELSE LET mid == FoldLeft(F, acc, SubSeq(s, 1, Len(s) \div 2))
         IN  IF mid = mid THEN FoldLeft(F, mid, SubSeq(s, Len(s) \div 2 + 1, Len(s)))
             ELSE mid

\* The loop body with the increment inside the if: the count is set when the
\* entry is created and an author already in the map is not counted again.
AddCommit_CountedOnce(map, commit) ==
    IF Has(map, commit.author.name) THEN map
    ELSE Append(map, [NewContributor(commit.author.name) EXCEPT !.commits = 1])

\* Body of the loop over commits.
AddCommit(map, commit) ==
    Update(Ensure(map, commit.author.name, NewContributor(commit.author.name)),
           commit.author.name, LAMBDA c : [c EXCEPT !.commits = @ + 1])

\* Body of the inner loop over pr.reviewers.
AddReviewer(map, reviewer) ==
    Update(Ensure(map, reviewer, NewContributor(reviewer)),
           reviewer, LAMBDA c : [c EXCEPT !.pullRequestsReviewed = @ + 1])

\* Body of the loop over pull requests.
AddPullRequest(map, pr) ==
    FoldLeft(AddReviewer,
             Update(Ensure(map, pr.createdBy, NewContributor(pr.createdBy)),
                    pr.createdBy, LAMBDA c : [c EXCEPT !.pullRequestsOpened = @ + 1]),
             IF pr.reviewers = None THEN <<>> ELSE Val(pr.reviewers))

IsDoneBug(wi) == wi.type = "Bug" /\ wi.state = "Done"

\* The loop body with the entry created when the assignee is not in the map,
\* as the loops over commits and pull requests do.
AddWorkItem_CreatesEntry(map, wi) ==
    IF wi.assignedTo # None
    THEN Update(Ensure(map, Val(wi.assignedTo), NewContributor(Val(wi.assignedTo))),
                Val(wi.assignedTo),
                LAMBDA c : [c EXCEPT !.bugsFixed = IF IsDoneBug(wi) THEN @ + 1 ELSE @,
                                     !.storyPointsDone = @ + NumOr(wi.storyPoints, 0)])
    ELSE map

\* Body of the loop over work items.
AddWorkItem(map, wi) ==
    IF wi.assignedTo # None /\ Has(map, Val(wi.assignedTo))
    THEN Update(map, Val(wi.assignedTo),
                LAMBDA c : [c EXCEPT !.bugsFixed = IF IsDoneBug(wi) THEN @ + 1 ELSE @,
                                     !.storyPointsDone = @ + NumOr(wi.storyPoints, 0)])
    ELSE map

\* commitHoursByAuthor.get(name)
CommitHours(cs, name) ==
    [h \in 1..24 |-> Count(cs, LAMBDA c : c.author.name = name /\ GetHours(c.author.date) = h - 1)]

\* Body of the final forEach over the map entries.
Enrich(contributor, cs, mergeStats, streaks) ==
    LET name  == contributor.name
        hours == CommitHours(cs, name)
    IN  [contributor EXCEPT
            !.avgPrMergeTimeHours =
                IF name \in DOMAIN mergeStats.mergeTimeByAuthor
                THEN RoundDiv(SumSeq(mergeStats.mergeTimeByAuthor[name]),
                              Len(mergeStats.mergeTimeByAuthor[name]))
                ELSE @,
            !.longestStreak =
                IF name \in DOMAIN streaks.streaksByAuthor
                THEN streaks.streaksByAuthor[name] ELSE 0,
            !.favoriteHour = IndexOf(hours, MaxOfSeq(hours))]

\* contributorMap after the loops over commits, pull requests and work items.
CountedContributors(cs, prs, wis) ==
    LET afterCommits == FoldLeft(AddCommit, <<>>, cs)
        afterPRs     == FoldLeft(AddPullRequest, afterCommits, prs)
    IN  FoldLeft(AddWorkItem, afterPRs, wis)

\* contributorMap when aggregateContributorStats reaches its return statement.
ContributorMap(cs, prs, wis, mergeStats, streaks) ==
    MapSeq(CountedContributors(cs, prs, wis), LAMBDA c : Enrich(c, cs, mergeStats, streaks))

\* The comparison with its operands exchanged: fewest commits first.
CommitsDesc_Ascending(a, b) == a.commits - b.commits

\* (a, b) => b.commits - a.commits
CommitsDesc(a, b) == b.commits - a.commits

\* Array.from(contributorMap.values()).sort(...).slice(0, 10)
TopByCommits(map) == Slice(StableSort(map, CommitsDesc), TopContributors)

aggregateContributorStats(cs, prs, wis, mergeStats, streaks) ==
    TopByCommits(ContributorMap(cs, prs, wis, mergeStats, streaks))

-----------------------------------------------------------------------------
(* aggregateModuleStats                                                     *)

TopModules == 6

\* The first segment of the area path in place of the last.
ModuleName_FirstSegment(wi) ==
    LET areaPath == StrOr(wi.areaPath, General)
        first    == Split(areaPath, Backslash)[1]
    IN  IF first # <<>> THEN first ELSE General

\* const moduleName
ModuleName(wi) ==
    LET areaPath == StrOr(wi.areaPath, General)
        last     == Pop(Split(areaPath, Backslash))
    IN  IF last # <<>> THEN last ELSE General

NewModule(name) ==
    [name |-> name, commits |-> 0, pullRequests |-> 0, storyPointsDone |-> 0,
     status |-> "In Progress"]

\* Body of the loop over work items.
AddToModule(map, wi) ==
    Update(Ensure(map, ModuleName(wi), NewModule(ModuleName(wi))), ModuleName(wi),
           LAMBDA m : [m EXCEPT !.storyPointsDone = @ + NumOr(wi.storyPoints, 0),
                                !.pullRequests = @ + 1])

\* moduleMap when aggregateModuleStats reaches its return statement.
ModuleMap(wis) == FoldLeft(AddToModule, <<>>, wis)

StoryPointsDesc(a, b) == b.storyPointsDone - a.storyPointsDone

\* The cut to six before the sort.
aggregateModuleStats_CutBeforeSort(wis) ==
    StableSort(Slice(ModuleMap(wis), TopModules), StoryPointsDesc)

\* Array.from(moduleMap.values()).sort(...).slice(0, 6)
aggregateModuleStats(wis) == Slice(StableSort(ModuleMap(wis), StoryPointsDesc), TopModules)

-----------------------------------------------------------------------------
(* calculateTop5                                                            *)

Top5Size == 5

\* commitsByDate: its entries [date, count] in insertion order
CommitsByDate(cs) ==
    MapSeq(Distinct(MapSeq(cs, LAMBDA c : DatePart(c.author.date))),
           LAMBDA d : <<d, Count(cs, LAMBDA c : DatePart(c.author.date) = d)>>)

\* The first five dates in the order first seen, without the sort.
BusiestDays_FirstSeen(cs) ==
    MapSeq(Slice(CommitsByDate(cs), Top5Size),
           LAMBDA e : [date |-> e[1], commits |-> e[2]])

\* const busiestDays
BusiestDays(cs) ==
    MapSeq(Slice(StableSort(CommitsByDate(cs), LAMBDA a, b : b[2] - a[2]), Top5Size),
           LAMBDA e : [date |-> e[1], commits |-> e[2]])

\* The comparison with its operands exchanged: fewest first.
PRsOpenedDesc_Ascending(a, b) == a.pullRequestsOpened - b.pullRequestsOpened

\* (a, b) => b.pullRequestsOpened - a.pullRequestsOpened
PRsOpenedDesc(a, b) == b.pullRequestsOpened - a.pullRequestsOpened

\* (a, b) => b.pullRequestsReviewed - a.pullRequestsReviewed
PRsReviewedDesc(a, b) == b.pullRequestsReviewed - a.pullRequestsReviewed

\* (a, b) => b.commentsWritten - a.commentsWritten
CommentsDesc(a, b) == b.commentsWritten - a.commentsWritten

calculateTop5(contributors, cs, streaks) ==
    LET sortedByCommits     == StableSort(contributors, CommitsDesc)
        sortedByPRsOpened   == StableSort(contributors, PRsOpenedDesc)
        sortedByPRsReviewed == StableSort(contributors, PRsReviewedDesc)
        sortedByComments    == StableSort(contributors, CommentsDesc)
        sortedByStreaks     == StableSort(contributors,
                                   LAMBDA a, b : b.longestStreak - a.longestStreak)
    IN  [mostCommits |->
             MapSeq(Slice(sortedByCommits, Top5Size),
                    LAMBDA c : [name |-> c.name, commits |-> c.commits]),
         mostPullRequestsOpened |->
             MapSeq(Slice(sortedByPRsOpened, Top5Size),
                    LAMBDA c : [name |-> c.name, pullRequestsOpened |-> c.pullRequestsOpened]),
         mostPullRequestsReviewed |->
             MapSeq(Slice(sortedByPRsReviewed, Top5Size),
                    LAMBDA c : [name |-> c.name, pullRequestsReviewed |-> c.pullRequestsReviewed]),
         mostCommentsWritten |->
             MapSeq(Slice(sortedByComments, Top5Size),
                    LAMBDA c : [name |-> c.name, commentsWritten |-> c.commentsWritten]),
         busiestDaysByCommits |-> BusiestDays(cs),
         longestStreaks |->
             MapSeq(Slice(SelectSeq(sortedByStreaks, LAMBDA c : c.longestStreak > 0), Top5Size),
                    LAMBDA c : [name |-> c.name, commits |-> c.longestStreak])]

-----------------------------------------------------------------------------
(* generateHighlights                                                       *)

MaxHighlights == 10

\* One generated sentence: its template and the numbers / label put into it.
Sentence(kind, n, of, label) == [kind |-> kind, n |-> n, of |-> of, label |-> label]

\* workItemsByType.get(type) || 0
OfType(wis, type) == Count(wis, LAMBDA wi : wi.type = type)

\* workItemsByType.get(a) || workItemsByType.get(b) || 0
OfTypeOr(wis, a, b) == IF OfType(wis, a) # 0 THEN OfType(wis, a) ELSE OfType(wis, b)

TotalStoryPoints(wis) == SumSeq(MapSeq(wis, LAMBDA wi : NumOr(wi.storyPoints, 0)))

MergedPRs(prs) == Count(prs, LAMBDA pr : pr.status = "completed")

\* pullRequests.length > 0 ? Math.round((mergedPrs / pullRequests.length) * 100) : 0
PrMergeRate(mergedPrs, total) ==
    IF total > 0
    THEN IF mergedPrs = 0 THEN 0 ELSE MathRound(Times(Divide(mergedPrs, total), 100))
    ELSE 0

\* if (cond) highlights.push(sentence)
PushIf(cond, sentence) == IF cond THEN <<sentence>> ELSE <<>>

\* Two independent ifs in place of the if / else if.
BugHighlights_IndependentTests(wis) ==
    LET bugs      == OfType(wis, "Bug")
        bugsFixed == Count(wis, IsDoneBug)
    IN  PushIf(bugsFixed > 0, Sentence("bugs squashed out of total", bugsFixed, bugs, ""))
        \o PushIf(bugs > 0, Sentence("bugs tracked", bugs, 0, ""))

\* The bug sentence(s) pushed by the if / else if on bugsFixed and bugs.
BugHighlights(wis) ==
    LET bugs      == OfType(wis, "Bug")
        bugsFixed == Count(wis, IsDoneBug)
    IN  IF bugsFixed > 0 THEN <<Sentence("bugs squashed out of total", bugsFixed, bugs, "")>>
        ELSE IF bugs > 0 THEN <<Sentence("bugs tracked", bugs, 0, "")>>
        ELSE <<>>

generateHighlights(cs, prs, wis, comments, changes, pattern) ==
    LET features           == OfTypeOr(wis, "Feature", "User Story")
        testCases          == OfTypeOr(wis, "Test Case", "Test Plan")
        srds               == OfTypeOr(wis, "Requirement", "SRD")
        uniqueContributors == Cardinality({c.author.name : c \in Range(cs)})
        all ==
            PushIf(Len(cs) > 0, Sentence("commits pushed", Len(cs), 0, ""))
         \o PushIf(Len(prs) > 0, Sentence("pull requests merged", MergedPRs(prs), 0, ""))
         \o PushIf(comments > 0, Sentence("code review comments", comments, 0, ""))
         \o PushIf(changes.linesAdded > 0 \/ changes.linesDeleted > 0,
                   Sentence("files modified", changes.filesChanged, 0, ""))
         \o BugHighlights(wis)
         \o PushIf(features > 0, Sentence("features delivered", features, 0, ""))
         \o PushIf(testCases > 0, Sentence("test cases created", testCases, 0, ""))
         \o PushIf(srds > 0, Sentence("requirements documented", srds, 0, ""))
         \o PushIf(TotalStoryPoints(wis) > 0,
                   Sentence("story points delivered", TotalStoryPoints(wis), 0, ""))
         \o PushIf(uniqueContributors > 0,
                   Sentence("team members contributed", uniqueContributors, 0, ""))
         \o PushIf(pattern.peakProductivityTime # "",
                   Sentence("Peak productivity", pattern.busiestHour, 0,
                            pattern.peakProductivityTime))
    IN  Slice(all, MaxHighlights)

-----------------------------------------------------------------------------
(* generateFunFacts, getHourPersonality                                     *)

\* The cut of the highlights in place of the fun facts' own.
MaxFunFacts_Ten == MaxHighlights

MaxFunFacts == 8

getHourPersonality(hour) ==
    IF hour >= 9 /\ hour <= 11 THEN "Morning coffee coder"
    ELSE IF hour >= 14 /\ hour <= 16 THEN "Post-lunch productivity"
    ELSE IF hour >= 17 /\ hour <= 19 THEN "Evening enthusiast"
    ELSE IF hour >= 20 /\ hour <= 23 THEN "Moonlight developer"
    ELSE IF hour >= 0 /\ hour <= 4 THEN "Vampire coder"
    ELSE ""

generateFunFacts(cs, prs, wis, pattern, mergeStats, streaks) ==
    LET hour        == pattern.busiestHour
        avg         == mergeStats.avgMergeTimeHours
        fastest     == mergeStats.fastestMergeTimeHours
        activeDays  == Cardinality({DatePart(c.author.date) : c \in Range(cs)})
        weekend     == pattern.dailyDistribution[1] + pattern.dailyDistribution[7]
        weekday     == SumSeq(SubSeq(pattern.dailyDistribution, 2, 6))
        doneItems   == Count(wis, LAMBDA wi : wi.state = "Done")
        personality == getHourPersonality(hour)
        all ==
            PushIf(pattern.busiestDay # "", Sentence("favorite day to code", 0, 0, pattern.busiestDay))
         \o (IF hour >= 22 \/ hour <= 5 THEN <<Sentence("Night owl detected", hour, 0, "")>>
             ELSE IF hour >= 5 /\ hour <= 8 THEN <<Sentence("Early bird", hour, 0, "")>>
             ELSE <<>>)
         \o (IF avg > 0
             THEN IF avg < 24 THEN <<Sentence("Lightning fast", avg, 0, "")>>
                  ELSE <<Sentence("PRs took days on average", RoundDiv(avg, 24), 0, "")>>
             ELSE <<>>)
         \* fastest is a whole number of hours here, so the under-one-hour branch
         \* (fastest > 0 && fastest < 1) is never taken
         \o PushIf(fastest > 0, Sentence("Fastest PR merged in hours", fastest, 0, ""))
         \o (IF streaks.longestStreak >= 7
             THEN <<Sentence("day commit streak", streaks.longestStreak, 0, "")>>
             ELSE IF streaks.longestStreak >= 3
             THEN <<Sentence("Longest commit streak", streaks.longestStreak, 0, "")>>
             ELSE <<>>)
         \* avgPerDay in tenths
         \o (IF activeDays > 0
             THEN <<Sentence("commits per active day", RoundDiv(10 * Len(cs), activeDays), 0, "")>>
             ELSE <<>>)
         \o PushIf(2 * weekend > weekday, Sentence("Weekend warrior", weekend, 0, ""))
         \o (IF Len(prs) > 0 /\ RoundDiv(100 * MergedPRs(prs), Len(prs)) >= 90
             THEN <<Sentence("PR approval rate", RoundDiv(100 * MergedPRs(prs), Len(prs)), 0, "")>>
             ELSE <<>>)
         \o (IF doneItems > 100 THEN <<Sentence("work items completed", doneItems, 0, "")>>
             ELSE IF doneItems > 50 THEN <<Sentence("work items shipped", doneItems, 0, "")>>
             ELSE <<>>)
         \o PushIf(personality # "", Sentence(personality, 0, 0, ""))
    IN  Slice(all, MaxFunFacts)

-----------------------------------------------------------------------------
(* generateMilestones                                                       *)

PRMilestoneThreshold == 100

DescriptionLength == 50

\* One milestone; text carries a description taken from a commit message and
\* n a number put into the description.
Milestone(date, title, description, text, n, icon) ==
    [date |-> date, title |-> title, description |-> description, text |-> text,
     n |-> n, icon |-> icon]

\* The list taken as it comes, without the sort.
SortedCommits_Unsorted(cs) == cs

\* [...commits].sort(by author.date)
SortedCommits(cs) ==
    StableSort(cs, LAMBDA a, b : GetTime(a.author.date) - GetTime(b.author.date))

\* A halfway point only for two or more commits.
CommitMilestones_HalfwayNeedsTwo(cs) ==
    LET sortedCommits == SortedCommits(cs)
        midIndex      == Len(sortedCommits) \div 2
    IN  <<Milestone(DatePart(sortedCommits[1].author.date), "First Commit", "comment",
                    Substring(sortedCommits[1].comment, DescriptionLength), 0, "lightbulb")>>
        \o (IF Len(cs) >= 2
            THEN <<Milestone(DatePart(sortedCommits[midIndex + 1].author.date),
                             "Halfway Point", "commits so far", <<>>, midIndex, "flag")>>
            ELSE <<>>)

\* The two milestones pushed when commits.length > 0.
CommitMilestones(cs) ==
    LET sortedCommits == SortedCommits(cs)
        midIndex      == Len(sortedCommits) \div 2
        first         == Substring(sortedCommits[1].comment, DescriptionLength)
    IN  <<Milestone(DatePart(sortedCommits[1].author.date), "First Commit", "comment",
                    IF first # <<>> THEN first ELSE InitialCommit, 0, "lightbulb"),
          Milestone(DatePart(sortedCommits[midIndex + 1].author.date), "Halfway Point",
                    "commits so far", <<>>, midIndex, "flag")>>

\* The comparison with its operands exchanged: latest date first.
MilestoneDateCmp_LatestFirst(a, b) == DateTime(b.date) - DateTime(a.date)

\* (a, b) => new Date(a.date).getTime() - new Date(b.date).getTime()
MilestoneDateCmp(a, b) == DateTime(a.date) - DateTime(b.date)

generateMilestones(cs, prs, wis, from, to) ==
    LET pushed ==
            (IF TruthyStr(from)
             THEN <<Milestone(Val(from), "Period Start", "Beginning of the tracking period",
                              <<>>, 0, "rocket")>>
             ELSE <<>>)
         \o (IF Len(cs) > 0 THEN CommitMilestones(cs) ELSE <<>>)
         \o (IF Len(prs) >= PRMilestoneThreshold /\ TruthyStr(to)
             THEN <<Milestone(Val(to), "100 PRs Milestone", "Team collaboration at scale",
                              <<>>, 0, "party")>>
             ELSE <<>>)
         \o (IF TruthyStr(to)
             THEN <<Milestone(Val(to), "Period End", "End of tracking period",
                              <<>>, 0, "lock")>>
             ELSE <<>>)
    IN  StableSort(pushed, MilestoneDateCmp)

-----------------------------------------------------------------------------
(* const totalStats of fetchAzureDevOpsData                                 *)

SprintDays == 14

\* Math.floor((new Date(to).getTime() - new Date(from).getTime()) / (14 days))
SprintsBetween(from, to) == (DateTime(to) - DateTime(from)) \div (SprintDays * 24)

TotalReviews(prs) ==
    SumSeq(MapSeq(prs, LAMBDA pr : IF pr.reviewers = None THEN 0 ELSE Len(Val(pr.reviewers))))

TotalStats(cs, prs, wis, comments, changes, mergeStats, streaks, from, to) ==
    [totalCommits |-> Len(cs),
     totalPullRequests |-> Len(prs),
     totalReviews |-> TotalReviews(prs),
     totalComments |-> comments,
     totalBugsFixed |-> Count(wis, IsDoneBug),
     totalStoryPointsDone |-> TotalStoryPoints(wis),
     sprintsCompleted |->
         IF TruthyStr(from) /\ TruthyStr(to) THEN SprintsBetween(Val(from), Val(to)) ELSE 0,
     totalLinesAdded |-> changes.linesAdded,
     totalLinesDeleted |-> changes.linesDeleted,
     totalFilesChanged |-> changes.filesChanged,
     avgPrMergeTimeHours |-> mergeStats.avgMergeTimeHours,
     fastestPrMergeTimeHours |-> mergeStats.fastestMergeTimeHours,
     longestStreak |-> streaks.longestStreak,
     totalWorkItems |-> Len(wis),
     prMergeRate |-> PrMergeRate(MergedPRs(prs), Len(prs))]

-----------------------------------------------------------------------------
(* The first version of the adapter, src/unnamed/part_009: the range is      *)
(* defaulted to the last 365 days, the contributor records have seven        *)
(* fields, calculateTop5 sorts the contributor array in place.               *)

YearDays == 365

\* const dateFrom = config.dateFrom || (the date 365 days before now)
DateFrom_part009(from, now) == StrOr(from, AddDays(now, 0 - YearDays))

\* const dateTo = config.dateTo || (the date of now)
DateTo_part009(to, now) == StrOr(to, now)

\* The seven fields of a contributor record of part_009.
Contributor_part009(c) ==
    [name |-> c.name, commits |-> c.commits, pullRequestsOpened |-> c.pullRequestsOpened,
     pullRequestsReviewed |-> c.pullRequestsReviewed, commentsWritten |-> c.commentsWritten,
     bugsFixed |-> c.bugsFixed, storyPointsDone |-> c.storyPointsDone]

\* contributorMap at the return statement: the same three loops, no enrichment.
ContributorMap_part009(cs, prs, wis) ==
    MapSeq(CountedContributors(cs, prs, wis), Contributor_part009)

aggregateContributorStats_part009(cs, prs, wis) ==
    TopByCommits(ContributorMap_part009(cs, prs, wis))

\* calculateTop5 of part_009: contributors.sort(...) sorts the caller's array
\* in place, each sort starting from the order the previous one left.  The
\* result holds the rankings and the order the array is left in.
calculateTop5_part009(contributors, cs) ==
    LET byCommits  == StableSort(contributors, CommitsDesc)
        byOpened   == StableSort(byCommits, PRsOpenedDesc)
        byReviewed == StableSort(byOpened, PRsReviewedDesc)
        byComments == StableSort(byReviewed, CommentsDesc)
    IN  [top5 |->
            [mostCommits |->
                 MapSeq(Slice(byCommits, Top5Size),
                        LAMBDA c : [name |-> c.name, commits |-> c.commits]),
             mostPullRequestsOpened |->
                 MapSeq(Slice(byOpened, Top5Size),
                        LAMBDA c : [name |-> c.name,
                                    pullRequestsOpened |-> c.pullRequestsOpened]),
             mostPullRequestsReviewed |->
                 MapSeq(Slice(byReviewed, Top5Size),
                        LAMBDA c : [name |-> c.name,
                                    pullRequestsReviewed |-> c.pullRequestsReviewed]),
             mostCommentsWritten |->
                 MapSeq(Slice(byComments, Top5Size),
                        LAMBDA c : [name |-> c.name, commentsWritten |-> c.commentsWritten]),
             busiestDaysByCommits |-> BusiestDays(cs)],
         contributors |-> byComments]

MaxHighlights_part009 == 6

generateHighlights_part009(cs, prs, wis) ==
    LET bugsFixed          == Count(wis, IsDoneBug)
        uniqueContributors == Cardinality({c.author.name : c \in Range(cs)})
        features           == OfType(wis, "User Story")
        all ==
            PushIf(Len(cs) > 0, Sentence("commits pushed", Len(cs), 0, ""))
         \o PushIf(Len(prs) > 0, Sentence("pull requests merged", MergedPRs(prs), 0, ""))
         \o PushIf(bugsFixed > 0, Sentence("bugs squashed", bugsFixed, 0, ""))
         \o PushIf(TotalStoryPoints(wis) > 0,
                   Sentence("story points delivered", TotalStoryPoints(wis), 0, ""))
         \o PushIf(uniqueContributors > 0,
                   Sentence("team members contributed", uniqueContributors, 0, ""))
         \o PushIf(features > 0, Sentence("user stories completed", features, 0, ""))
    IN  Slice(all, MaxHighlights_part009)

\* generateMilestones of part_009: both period entries are always pushed, the
\* 100 PRs entry needs no end date.
generateMilestones_part009(cs, prs, wis, from, to) ==
    LET pushed ==
            <<Milestone(from, "Period Start", "Beginning of the tracking period",
                        <<>>, 0, "rocket")>>
         \o (IF Len(cs) > 0 THEN CommitMilestones(cs) ELSE <<>>)
         \o PushIf(Len(prs) >= PRMilestoneThreshold,
                   Milestone(to, "100 PRs Milestone", "Team collaboration at scale",
                             <<>>, 0, "party"))
         \o <<Milestone(to, "Period End", "End of tracking period", <<>>, 0, "lock")>>
    IN  StableSort(pushed, MilestoneDateCmp)

\* const totalStats of part_009: sprintsCompleted is computed from the
\* defaulted range, without a test of the bounds.
TotalStats_part009(cs, prs, wis, from, to) ==
    [totalCommits |-> Len(cs),
     totalPullRequests |-> Len(prs),
     totalReviews |-> TotalReviews(prs),
     totalComments |-> 0,
     totalBugsFixed |-> Count(wis, IsDoneBug),
     totalStoryPointsDone |-> TotalStoryPoints(wis),
     sprintsCompleted |-> SprintsBetween(from, to)]

-----------------------------------------------------------------------------
(* fetchAzureDevOpsData, from the line after the fetches (Promise.all) to    *)
(* its return: one action per statement, in the order of the source.  The    *)
(* repository statistics and the work-item type breakdown (repoStats,        *)
(* workItemBreakdown, totalRepositories) are left out: nothing else reads    *)
(* them.                                                                     *)

\* The statement at pc runs and control moves to the next one; the input
\* collections, the run counter and the saved first run stay as they are.
Goto(from, to) ==
    /\ pc = from
    /\ pc' = to
    /\ UNCHANGED <<inputVars, runs, firstRun, done>>

CallCalculatePrMergeStats ==
    /\ Goto("calculatePrMergeStats", "calculateActivityPattern")
    /\ prMergeStats' = calculatePrMergeStats(pullRequests)
    /\ UNCHANGED <<activityPattern, streakData, codeChanges, contributorMap,
                   contributorStats, moduleMap, moduleStats, top5, highlights,
                   funFacts, milestones, totalStats>>

CallCalculateActivityPattern ==
    /\ Goto("calculateActivityPattern", "calculateStreaks")
    /\ activityPattern' = calculateActivityPattern(commits)
    /\ UNCHANGED <<prMergeStats, streakData, codeChanges, contributorMap,
                   contributorStats, moduleMap, moduleStats, top5, highlights,
                   funFacts, milestones, totalStats>>

CallCalculateStreaks ==
    /\ Goto("calculateStreaks", "aggregateCodeChanges")
    /\ streakData' = calculateStreaks(commits)
    /\ UNCHANGED <<prMergeStats, activityPattern, codeChanges, contributorMap,
                   contributorStats, moduleMap, moduleStats, top5, highlights,
                   funFacts, milestones, totalStats>>

CallAggregateCodeChanges ==
    /\ Goto("aggregateCodeChanges", "aggregateContributorStats")
    /\ codeChanges' = aggregateCodeChanges(fileChanges)
    /\ UNCHANGED <<prMergeStats, activityPattern, streakData, contributorMap,
                   contributorStats, moduleMap, moduleStats, top5, highlights,
                   funFacts, milestones, totalStats>>

\* contributorMap kept from one call to the next in place of the local
\* const: a second call counts on top of the first call's entries.
CallAggregateContributorStats_MapOutlivesCall ==
    /\ Goto("aggregateContributorStats", "aggregateModuleStats")
    /\ LET kept    == IF runs = 0 THEN <<>> ELSE contributorMap
           counted == FoldLeft(AddWorkItem,
                               FoldLeft(AddPullRequest,
                                        FoldLeft(AddCommit, kept, commits), pullRequests),
                               workItems)
           map     == MapSeq(counted, LAMBDA c : Enrich(c, commits, prMergeStats, streakData))
       IN  /\ contributorMap' = map
           /\ contributorStats' = TopByCommits(map)
    /\ UNCHANGED <<prMergeStats, activityPattern, streakData, codeChanges,
                   moduleMap, moduleStats, top5, highlights,
                   funFacts, milestones, totalStats>>

CallAggregateContributorStats ==
    /\ Goto("aggregateContributorStats", "aggregateModuleStats")
    /\ contributorMap' = ContributorMap(commits, pullRequests, workItems, prMergeStats, streakData)
    /\ contributorStats' =
           aggregateContributorStats(commits, pullRequests, workItems, prMergeStats, streakData)
    /\ UNCHANGED <<prMergeStats, activityPattern, streakData, codeChanges,
                   moduleMap, moduleStats, top5, highlights,
                   funFacts, milestones, totalStats>>

CallAggregateModuleStats ==
    /\ Goto("aggregateModuleStats", "calculateTop5")
    /\ moduleMap' = ModuleMap(workItems)
    /\ moduleStats' = aggregateModuleStats(workItems)
    /\ UNCHANGED <<prMergeStats, activityPattern, streakData, codeChanges, contributorMap,
                   contributorStats, top5, highlights,
                   funFacts, milestones, totalStats>>

\* The caller's array when calculateTop5 returns.  Sorting it in place, as
\* the first adapter does, would leave it in the order of the last sort:
calculateTop5_Contributors_SortedInPlace(contributors) ==
    calculateTop5_part009(contributors, <<>>).contributors

\* Each ranking sorts a copy, [...contributors].sort(...): the array is as it was.
calculateTop5_Contributors(contributors) == contributors

CallCalculateTop5 ==
    /\ Goto("calculateTop5", "generateHighlights")
    /\ top5' = calculateTop5(contributorStats, commits, streakData)
    /\ contributorStats' = calculateTop5_Contributors(contributorStats)
    /\ UNCHANGED <<prMergeStats, activityPattern, streakData, codeChanges, contributorMap,
                   moduleMap, moduleStats, highlights,
                   funFacts, milestones, totalStats>>

CallGenerateHighlights ==
    /\ Goto("generateHighlights", "generateFunFacts")
    /\ highlights' = generateHighlights(commits, pullRequests, workItems, prComments,
                                        codeChanges, activityPattern)
    /\ UNCHANGED <<prMergeStats, activityPattern, streakData, codeChanges, contributorMap,
                   contributorStats, moduleMap, moduleStats, top5,
                   funFacts, milestones, totalStats>>

CallGenerateFunFacts ==
    /\ Goto("generateFunFacts", "generateMilestones")
    /\ funFacts' = generateFunFacts(commits, pullRequests, workItems, activityPattern,
                                    prMergeStats, streakData)
    /\ UNCHANGED <<prMergeStats, activityPattern, streakData, codeChanges, contributorMap,
                   contributorStats, moduleMap, moduleStats, top5, highlights,
                   milestones, totalStats>>

CallGenerateMilestones ==
    /\ Goto("generateMilestones", "totalStats")
    /\ milestones' = generateMilestones(commits, pullRequests, workItems, dateFrom, dateTo)
    /\ UNCHANGED <<prMergeStats, activityPattern, streakData, codeChanges, contributorMap,
                   contributorStats, moduleMap, moduleStats, top5, highlights,
                   funFacts, totalStats>>

ComputeTotalStats ==
    /\ Goto("totalStats", "return")
    /\ totalStats' = TotalStats(commits, pullRequests, workItems, prComments, codeChanges,
                                prMergeStats, streakData, dateFrom, dateTo)
    /\ UNCHANGED <<prMergeStats, activityPattern, streakData, codeChanges, contributorMap,
                   contributorStats, moduleMap, moduleStats, top5, highlights,
                   funFacts, milestones>>

\* fetchAzureDevOpsData of part_009 from its fetches to its return statement.
FetchAzureDevOpsData_part009 ==
    /\ pc = "part_009"
    /\ pc' = "return"
    /\ LET from         == DateFrom_part009(dateFrom, today)
           to           == DateTo_part009(dateTo, today)
           contributors == aggregateContributorStats_part009(commits, pullRequests, workItems)
           ranked       == calculateTop5_part009(contributors, commits)
       IN  /\ contributorMap' = ContributorMap_part009(commits, pullRequests, workItems)
           /\ contributorStats' = ranked.contributors
           /\ moduleMap' = ModuleMap(workItems)
           /\ moduleStats' = aggregateModuleStats(workItems)
           /\ top5' = ranked.top5
           /\ highlights' = generateHighlights_part009(commits, pullRequests, workItems)
           /\ milestones' = generateMilestones_part009(commits, pullRequests, workItems,
                                                       from, to)
           /\ totalStats' = TotalStats_part009(commits, pullRequests, workItems, from, to)
    /\ UNCHANGED <<inputVars, runs, firstRun, done, prMergeStats, activityPattern,
                   streakData, codeChanges, funFacts>>

Next ==
    \/ CallCalculatePrMergeStats
    \/ CallCalculateActivityPattern
    \/ CallCalculateStreaks
    \/ CallAggregateCodeChanges
    \/ CallAggregateContributorStats
    \/ CallAggregateModuleStats
    \/ CallCalculateTop5
    \/ CallGenerateHighlights
    \/ CallGenerateFunFacts
    \/ CallGenerateMilestones
    \/ ComputeTotalStats

\* The statements of fetchAzureDevOpsData in source order; a statement has run
\* when pc is past it.
Statements ==
    <<"calculatePrMergeStats", "calculateActivityPattern", "calculateStreaks",
      "aggregateCodeChanges", "aggregateContributorStats", "aggregateModuleStats",
      "calculateTop5", "generateHighlights", "generateFunFacts", "generateMilestones",
      "totalStats", "return">>

HasRun(statement) ==
    /\ pc \in Range(Statements)
    /\ IndexOf(Statements, pc) > IndexOf(Statements, statement)

-----------------------------------------------------------------------------
(* Input records.                                                           *)

Timestamp(date, hour) == [date |-> date, hour |-> hour]

Commit(name, date, hour, comment) ==
    [author |-> [name |-> name, date |-> Timestamp(date, hour)], comment |-> comment]

PullRequest(createdBy, status, creationDate, closedDate, reviewers) ==
    [createdBy |-> createdBy, status |-> status, creationDate |-> creationDate,
     closedDate |-> closedDate, reviewers |-> reviewers]

WorkItem(type, state, assignedTo, storyPoints, areaPath) ==
    [type |-> type, state |-> state, assignedTo |-> assignedTo,
     storyPoints |-> storyPoints, areaPath |-> areaPath]

FileChange(path, changeType, contentLength) ==
    [path |-> path, changeType |-> changeType, contentLength |-> contentLength]

\* No statement after the fetches has run.
NothingComputed ==
    /\ prMergeStats = None /\ activityPattern = None /\ streakData = None
    /\ codeChanges = None /\ contributorMap = None /\ contributorStats = None
    /\ moduleMap = None /\ moduleStats = None /\ top5 = None /\ highlights = None
    /\ funFacts = None /\ milestones = None /\ totalStats = None
    /\ runs = 0 /\ firstRun = None
    /\ done = {}

\* The table saved_wrapped is empty and the storage has not been called.
NothingSaved ==
    /\ savedWrapped = {}
    /\ calls = <<>>

\* The state right after the fetches of fetchAzureDevOpsData.
Fetched ==
    /\ variant = "azure-devops.ts"
    /\ server = None
    /\ pc = "calculatePrMergeStats"
    /\ NothingComputed
    /\ NothingSaved

-----------------------------------------------------------------------------
(* Inputs of the contributor aggregation and the rankings: more display      *)
(* names than the contributor list keeps, so that both truncations happen.   *)

AggMaxCommits == 2

AggNames == 1..(TopContributors + 1)

SomeDay == <<2024, 3, 15>>

Message == <<"f", "i", "x">>

Repeat(x, n) == [i \in 1..n |-> x]

\* Author i has i commits, author 1 first.
RECURSIVE Ladder(_)
Ladder(n) ==
    IF n = 0 THEN <<>> ELSE Ladder(n - 1) \o Repeat(Commit(n, SomeDay, 10, Message), n)

\* The reviewers n, n-1, ..., n-k+1: first seen in the opposite order of the names.
Descending(n, k) == [i \in 1..k |-> n + 1 - i]

AggCommits ==
    SeqsUpTo({Commit(n, SomeDay, 10, Message) : n \in AggNames}, AggMaxCommits)
        \cup {Ladder(Cardinality(AggNames))}

AggPullRequests ==
    {<<>>} \cup
    {<<PullRequest(1, "completed", Timestamp(SomeDay, 9), Some(Timestamp(SomeDay, 12)), r)>> :
        r \in {None} \cup {Some(Descending(Cardinality(AggNames), k)) :
                              k \in {0, 3, 6, Cardinality(AggNames)}}}

AggWorkItems ==
    {<<>>, <<WorkItem("Bug", "Done", Some(1), Some(3), None)>>}

InitAgg ==
    /\ commits \in AggCommits
    /\ pullRequests \in AggPullRequests
    /\ workItems \in AggWorkItems
    /\ dateFrom = None /\ dateTo = None
    /\ prComments = 0
    /\ fileChanges = <<>>
    /\ today = SomeDay
    /\ Fetched

SpecAgg == InitAgg /\ [][Next]_vars

-----------------------------------------------------------------------------
\* C1: once aggregateContributorStats has run, the commit counts of all
\* entries of its full contributor map (before the cut to 10) add up to the
\* number of input commits.
C1_CommitCountsSumToCommits ==
    HasRun("aggregateContributorStats") =>
        SumSeq(MapSeq(contributorMap, LAMBDA c : c.commits)) = Len(commits)

\* C1 witness: more contributors than the list keeps, an author with several
\* commits, and the returned list misses some of the commits.
C1_Witness ==
    /\ HasRun("aggregateContributorStats")
    /\ Len(contributorMap) > TopContributors
    /\ \E i \in 1..Len(contributorMap) : contributorMap[i].commits >= 2
    /\ SumSeq(MapSeq(contributorStats, LAMBDA c : c.commits)) < Len(commits)

\* C2: top5.mostCommits has min(5, number of contributors) entries, in
\* descending order of commit count, each the name and count of a distinct
\* contributor of the full map, and no contributor left out has more commits
\* than one listed: it is the leading part of the full list sorted descending
\* by commit count.
C2_MostCommitsLeadsSortedContributors ==
    HasRun("calculateTop5") =>
        LET most == top5.mostCommits
            n    == Len(contributorMap)
        IN  /\ Len(most) = (IF n < 5 THEN n ELSE 5)
            /\ \A i \in 1..(Len(most) - 1) : most[i].commits >= most[i + 1].commits
            /\ \A i, j \in 1..Len(most) : most[i].name = most[j].name => i = j
            /\ \A i \in 1..Len(most) :
                   \E k \in 1..n : /\ contributorMap[k].name = most[i].name
                                   /\ contributorMap[k].commits = most[i].commits
            /\ \A k \in 1..n :
                   (\A i \in 1..Len(most) : most[i].name # contributorMap[k].name) =>
                       \A i \in 1..Len(most) : contributorMap[k].commits <= most[i].commits

\* C2 witness: more than 10 contributors, five listed, with different counts.
C2_Witness ==
    /\ HasRun("calculateTop5")
    /\ Len(contributorMap) > TopContributors
    /\ Len(top5.mostCommits) = 5
    /\ top5.mostCommits[1].commits > top5.mostCommits[5].commits
    /\ top5.mostCommits[5].commits > 0

-----------------------------------------------------------------------------
(* Inputs of calculateStreaks: one author's commits on the days around the   *)
(* leap day of 2024, a second commit on one of the days, and a second author.*)

StreakMaxCommits == 4

StreakDays == <<<<2024, 2, 28>>, <<2024, 2, 29>>, <<2024, 3, 1>>, <<2024, 3, 2>>>>

StreakCommitValues ==
    {Commit(1, StreakDays[i], 10, Message) : i \in 1..Len(StreakDays)}
        \cup {Commit(1, StreakDays[2], 23, Message), Commit(2, StreakDays[3], 0, Message)}

InitStreaks ==
    /\ commits \in SeqsUpTo(StreakCommitValues, StreakMaxCommits)
    /\ pullRequests = <<>>
    /\ workItems = <<>>
    /\ dateFrom = None /\ dateTo = None
    /\ prComments = 0
    /\ fileChanges = <<>>
    /\ today = SomeDay
    /\ Fetched

SpecStreaks == InitStreaks /\ [][Next]_vars

\* The day numbers on which the author has at least one commit.
C3_CommitDays(author) ==
    {DayNumber(DatePart(commits[i].author.date)) :
        i \in {j \in 1..Len(commits) : commits[j].author.name = author}}

\* days holds a run of exactly-one-day-apart dates of length k
C3_HasRun(days, k) == \E d \in days : \A i \in 0..(k - 1) : d + i \in days

\* C3: once calculateStreaks has run, every author with a commit has as
\* streak the length of the longest run of calendar-consecutive dates on
\* which the author committed (a run of that length exists, none longer
\* does; several commits on one date make one date), and longestStreak is
\* the largest of the authors' streaks, 0 without commits.
C3_StreakIsLongestConsecutiveRun ==
    HasRun("calculateStreaks") =>
        LET authors == {commits[i].author.name : i \in 1..Len(commits)}
            streak  == streakData.streaksByAuthor
        IN  /\ DOMAIN streak = authors
            /\ \A a \in authors :
                   /\ C3_HasRun(C3_CommitDays(a), streak[a])
                   /\ ~C3_HasRun(C3_CommitDays(a), streak[a] + 1)
            /\ \A a \in authors : streak[a] <= streakData.longestStreak
            /\ IF authors = {} THEN streakData.longestStreak = 0
               ELSE \E a \in authors : streak[a] = streakData.longestStreak

\* C3 witness: commits on exactly three consecutive dates across the leap
\* day, two of them on the same date, entered out of date order: streak 3.
C3_Witness ==
    /\ HasRun("calculateStreaks")
    /\ Len(commits) = 4
    /\ C3_CommitDays(1) = {DayNumber(StreakDays[i]) : i \in 2..4}
    /\ DatePart(commits[1].author.date) = StreakDays[4]
    /\ streakData.streaksByAuthor[1] = 3

\* C3 second case: commits on days 1, 2 and 4 of the window give 2.
C3_WitnessGap ==
    /\ HasRun("calculateStreaks")
    /\ C3_CommitDays(1) = {DayNumber(StreakDays[i]) : i \in {1, 2, 4}}
    /\ streakData.streaksByAuthor[1] = 2

-----------------------------------------------------------------------------
(* Inputs of generateMilestones: each bound undefined, blank (the form's     *)
(* empty field) or a date; commits on the first day of the range and inside  *)
(* it; pull-request lists just below and at the 100 mark.                    *)

MilestoneMaxCommits == 3

RangeStart == <<2024, 1, 1>>

RangeEnd == <<2024, 12, 31>>

MilestoneCommitValues ==
    {Commit(1, d, 9, Message) : d \in {RangeStart, <<2024, 2, 1>>, <<2024, 6, 1>>, <<2024, 11, 1>>}}

SomePullRequest ==
    PullRequest(1, "completed", Timestamp(SomeDay, 9), Some(Timestamp(SomeDay, 12)), None)

MilestonePullRequests ==
    {Repeat(SomePullRequest, n) : n \in {0, PRMilestoneThreshold - 1, PRMilestoneThreshold}}

InitMilestones ==
    /\ commits \in SeqsUpTo(MilestoneCommitValues, MilestoneMaxCommits)
    /\ pullRequests \in MilestonePullRequests
    /\ workItems = <<>>
    /\ dateFrom \in {None, Some(<<>>), Some(RangeStart)}
    /\ dateTo \in {None, Some(<<>>), Some(RangeEnd)}
    /\ prComments = 0
    /\ fileChanges = <<>>
    /\ today = SomeDay
    /\ Fetched

SpecMilestones == InitMilestones /\ [][Next]_vars

\* A bound is supplied when it is a non-blank date string.
Supplied(bound) == bound # None /\ Val(bound) # <<>>

\* Both bounds supplied and a non-empty commit list, every commit on a date
\* strictly after dateFrom and strictly before dateTo.
C4_CommitsStrictlyInsideRange ==
    /\ Supplied(dateFrom) /\ Supplied(dateTo)
    /\ commits # <<>>
    /\ \A i \in 1..Len(commits) :
           /\ DayNumber(Val(dateFrom)) < DayNumber(DatePart(commits[i].author.date))
           /\ DayNumber(DatePart(commits[i].author.date)) < DayNumber(Val(dateTo))

C4_Titles(i, j) == {milestones[i].title, milestones[j].title}

\* C4 (amended): for a supplied range and a non-empty commit list strictly
\* inside it, the milestone list starts with "Period Start", ends with
\* "Period End" and never descends by date; two entries share a date only
\* when they are "First Commit" and "Halfway Point" (the halfway commit is on
\* the first commit's date, as with a single commit) or "100 PRs Milestone"
\* and "Period End" (both dated dateTo).
C4_MilestonesAscendBetweenPeriodBounds ==
    (HasRun("generateMilestones") /\ C4_CommitsStrictlyInsideRange) =>
        /\ milestones[1].title = "Period Start"
        /\ milestones[Len(milestones)].title = "Period End"
        /\ \A i, j \in 1..Len(milestones) :
               i < j =>
                   /\ DayNumber(milestones[i].date) <= DayNumber(milestones[j].date)
                   /\ DayNumber(milestones[i].date) = DayNumber(milestones[j].date) =>
                          \/ C4_Titles(i, j) = {"First Commit", "Halfway Point"}
                          \/ C4_Titles(i, j) = {"100 PRs Milestone", "Period End"}

\* C4 witness: the range 2024-01-01..2024-12-31 with commits on 2024-02-01,
\* 2024-06-01 and 2024-11-01, received latest first, and 100 pull requests.
C4_Witness ==
    /\ HasRun("generateMilestones")
    /\ C4_CommitsStrictlyInsideRange
    /\ MapSeq(commits, LAMBDA c : DatePart(c.author.date))
           = <<<<2024, 11, 1>>, <<2024, 6, 1>>, <<2024, 2, 1>>>>
    /\ Len(pullRequests) = PRMilestoneThreshold
    /\ MapSeq(milestones, LAMBDA x : x.title)
           = <<"Period Start", "First Commit", "Halfway Point", "100 PRs Milestone",
               "Period End">>

\* C4 as stated: under the same conditions the list is strictly ascending
\* by date throughout.
C4_StrictlyAscendingThroughout ==
    (HasRun("generateMilestones") /\ C4_CommitsStrictlyInsideRange) =>
        /\ milestones[1].title = "Period Start"
        /\ milestones[Len(milestones)].title = "Period End"
        /\ \A i \in 1..(Len(milestones) - 1) :
               DayNumber(milestones[i].date) < DayNumber(milestones[i + 1].date)

C5_Entries(title) == SelectSeq(milestones, LAMBDA x : x.title = title)

\* C5: the milestone list holds one "Period Start" entry dated dateFrom when
\* dateFrom is supplied and none otherwise, one "Period End" entry dated
\* dateTo when dateTo is supplied and none otherwise, whatever the other
\* bound, the commits and the pull requests are; and one "First Commit" and
\* one "Halfway Point" entry when there are commits, none otherwise.
C5_PeriodAndCommitMilestonesPresent ==
    HasRun("generateMilestones") =>
        /\ IF Supplied(dateFrom)
           THEN /\ Len(C5_Entries("Period Start")) = 1
                /\ C5_Entries("Period Start")[1].date = Val(dateFrom)
           ELSE C5_Entries("Period Start") = <<>>
        /\ IF Supplied(dateTo)
           THEN /\ Len(C5_Entries("Period End")) = 1
                /\ C5_Entries("Period End")[1].date = Val(dateTo)
           ELSE C5_Entries("Period End") = <<>>
        /\ Len(C5_Entries("First Commit")) = (IF commits # <<>> THEN 1 ELSE 0)
        /\ Len(C5_Entries("Halfway Point")) = (IF commits # <<>> THEN 1 ELSE 0)

\* C5 witness: only dateTo supplied, a single commit, no pull requests: the
\* list is First Commit, Halfway Point, Period End.
C5_Witness ==
    /\ HasRun("generateMilestones")
    /\ ~Supplied(dateFrom) /\ Supplied(dateTo)
    /\ Len(commits) = 1 /\ pullRequests = <<>>
    /\ MapSeq(milestones, LAMBDA x : x.title)
           = <<"First Commit", "Halfway Point", "Period End">>

-----------------------------------------------------------------------------
(* Inputs of generateHighlights: bugs done, open and closed under another    *)
(* state name, a done item that is no bug; the other collections all empty   *)
(* or all filled.                                                            *)

HighlightMaxItems == 3

HighlightWorkItemValues ==
    {WorkItem("Bug", "Done", Some(1), None, None),
     WorkItem("Bug", "Active", Some(1), None, None),
     WorkItem("Bug", "Closed", None, None, None),
     WorkItem("Feature", "Done", Some(1), Some(3), None)}

InitHighlights ==
    /\ workItems \in SeqsUpTo(HighlightWorkItemValues, HighlightMaxItems)
    /\ \/ /\ commits = <<>> /\ pullRequests = <<>> /\ prComments = 0
          /\ fileChanges = <<>>
       \/ /\ commits = <<Commit(1, SomeDay, 10, Message)>>
          /\ pullRequests = <<SomePullRequest>>
          /\ prComments = 2
          /\ fileChanges = <<FileChange(Some(<<"a">>), "add", Some(40))>>
    /\ dateFrom = None /\ dateTo = None
    /\ today = SomeDay
    /\ Fetched

SpecHighlights == InitHighlights /\ [][Next]_vars

C6_Sentences(kind) == SelectSeq(highlights, LAMBDA h : h.kind = kind)

C6_Bugs == Cardinality({i \in 1..Len(workItems) : workItems[i].type = "Bug"})

C6_BugsDone ==
    Cardinality({i \in 1..Len(workItems) :
                    workItems[i].type = "Bug" /\ workItems[i].state = "Done"})

\* C6: with at least one Bug in state Done the highlights hold the one
\* sentence "<done bugs> bugs squashed out of <bugs> total" and no "bugs
\* tracked" sentence, whatever the commits and pull requests are; with Bug
\* items none of which is Done they hold the one sentence "<bugs> bugs
\* tracked" and no bugs-squashed sentence; without Bug items they hold
\* neither.
C6_BugSentenceFollowsBugItems ==
    HasRun("generateHighlights") =>
        LET squashed == C6_Sentences("bugs squashed out of total")
            tracked  == C6_Sentences("bugs tracked")
        IN  /\ squashed = (IF C6_BugsDone > 0
                           THEN <<Sentence("bugs squashed out of total", C6_BugsDone, C6_Bugs, "")>>
                           ELSE <<>>)
            /\ tracked = (IF C6_BugsDone = 0 /\ C6_Bugs > 0
                          THEN <<Sentence("bugs tracked", C6_Bugs, 0, "")>>
                          ELSE <<>>)
            /\ squashed = <<>> \/ tracked = <<>>

\* C6 witness: no commits, no pull requests, one Bug in state Done and
\* assigned: the first highlight is the bugs-squashed sentence with count 1.
C6_Witness ==
    /\ HasRun("generateHighlights")
    /\ commits = <<>> /\ pullRequests = <<>>
    /\ workItems = <<WorkItem("Bug", "Done", Some(1), None, None)>>
    /\ highlights[1] = Sentence("bugs squashed out of total", 1, 1, "")

-----------------------------------------------------------------------------
(* Inputs of aggregateModuleStats: work items without an area path, with a   *)
(* blank one, and with every short path over a letter and the backslash,     *)
(* among them paths that start or end with a backslash.                      *)

ModuleMaxItems == 2

ModulePathMaxLen == 2

TeamBackendAPI == <<"T", "\\", "B", "\\", "A">>

ModuleAreaPaths ==
    {None, Some(TeamBackendAPI)}
        \cup {Some(path) : path \in SeqsUpTo({"A", Backslash}, ModulePathMaxLen)}

ModuleWorkItemValues ==
    {WorkItem("Task", "Done", None, Some(2), path) : path \in ModuleAreaPaths}

InitModules ==
    /\ workItems \in SeqsUpTo(ModuleWorkItemValues, ModuleMaxItems)
    /\ commits = <<>> /\ pullRequests = <<>>
    /\ dateFrom = None /\ dateTo = None
    /\ prComments = 0
    /\ fileChanges = <<>>
    /\ today = SomeDay
    /\ Fetched

SpecModules == InitModules /\ [][Next]_vars

\* The part of the path after its last backslash, the whole path without one.
C7_LastSegment(path) ==
    LET at == {i \in 1..Len(path) : path[i] = Backslash}
        k  == IF at = {} THEN 0 ELSE CHOOSE i \in at : \A j \in at : j <= i
    IN  SubSeq(path, k + 1, Len(path))

\* The module of a work item: "General" for an absent or blank area path and
\* for one whose last segment is blank, the last segment otherwise.
C7_Module(wi) ==
    IF wi.areaPath = None \/ Val(wi.areaPath) = <<>> THEN General
    ELSE IF C7_LastSegment(Val(wi.areaPath)) = <<>> THEN General
    ELSE C7_LastSegment(Val(wi.areaPath))

\* The module of a work item as stated: "General" only for an absent or
\* blank area path, the last segment for every other path.
C7_ModuleAsStated(wi) ==
    IF wi.areaPath = None \/ Val(wi.areaPath) = <<>> THEN General
    ELSE C7_LastSegment(Val(wi.areaPath))

\* The module map holds one module per module name of a work item, and each
\* module counts the work items of its name and sums their story points.
C7_GroupedBy(ModuleOf(_)) ==
    /\ \A i, j \in 1..Len(moduleMap) : moduleMap[i].name = moduleMap[j].name => i = j
    /\ {moduleMap[i].name : i \in 1..Len(moduleMap)}
           = {ModuleOf(workItems[i]) : i \in 1..Len(workItems)}
    /\ \A k \in 1..Len(moduleMap) :
           LET mine == SelectSeq(workItems, LAMBDA wi : ModuleOf(wi) = moduleMap[k].name)
           IN  /\ moduleMap[k].pullRequests = Len(mine)
               /\ moduleMap[k].storyPointsDone = TotalStoryPoints(mine)

\* C7 (amended): aggregateModuleStats groups every work item under the last
\* backslash-delimited segment of its area path, and under "General" when
\* the area path is absent or blank or when that last segment is blank (a
\* path ending with a backslash); every work item is counted in exactly one
\* module, so the modules' counts add up to the number of work items.
C7_WorkItemsGroupedByLastSegment ==
    HasRun("aggregateModuleStats") =>
        /\ C7_GroupedBy(C7_Module)
        /\ SumSeq(MapSeq(moduleMap, LAMBDA m : m.pullRequests)) = Len(workItems)

\* C7 witness: "T\B\A" and "A" make one module "A" with two work items.
C7_Witness ==
    /\ HasRun("aggregateModuleStats")
    /\ Len(workItems) = 2
    /\ workItems[1].areaPath = Some(TeamBackendAPI)
    /\ workItems[2].areaPath = Some(<<"A">>)
    /\ moduleMap = <<[NewModule(<<"A">>) EXCEPT !.pullRequests = 2, !.storyPointsDone = 4]>>

\* C7 as stated: "General" only for an absent or blank area path.
C7_GeneralOnlyWithoutAreaPath ==
    HasRun("aggregateModuleStats") =>
        /\ C7_GroupedBy(C7_ModuleAsStated)
        /\ SumSeq(MapSeq(moduleMap, LAMBDA m : m.pullRequests)) = Len(workItems)

-----------------------------------------------------------------------------
(* Inputs of the sprint count: each bound undefined, blank or a date, the    *)
(* end from one day before the start to a little past two sprints after it,  *)
(* run through the current adapter and through part_009.                     *)

SprintMaxDays == 29

SprintStart == <<2024, 2, 20>>

SprintEnds == {AddDays(SprintStart, k) : k \in (0 - 1)..SprintMaxDays}

InitSprints ==
    /\ variant \in {"azure-devops.ts", "part_009"}
    /\ pc = (IF variant = "part_009" THEN "part_009" ELSE "calculatePrMergeStats")
    /\ NothingComputed
    /\ NothingSaved
    /\ server = None
    /\ dateFrom \in {None, Some(<<>>), Some(SprintStart)}
    /\ dateTo \in {None, Some(<<>>)} \cup {Some(d) : d \in SprintEnds}
    /\ commits \in {<<>>, <<Commit(1, SprintStart, 10, Message)>>}
    /\ pullRequests = <<>>
    /\ workItems = <<>>
    /\ prComments = 0
    /\ fileChanges = <<>>
    /\ today = SomeDay

NextWithPart009 ==
    \/ Next
    \/ FetchAzureDevOpsData_part009

SpecSprints == InitSprints /\ [][NextWithPart009]_vars

\* The whole number of 14-day periods in the days from dateFrom to dateTo.
C8_WholeSprints ==
    LET days == DayNumber(Val(dateTo)) - DayNumber(Val(dateFrom))
    IN  CHOOSE n \in (0 - 1)..days : SprintDays * n <= days /\ days < SprintDays * (n + 1)

\* C8: once the statistics are computed, sprintsCompleted is the whole
\* number of 14-day periods from dateFrom to dateTo when both bounds are
\* supplied (2 for bounds 28 days apart), and 0 when no bound is supplied.
C8_SprintsCompletedFollowsBounds ==
    HasRun("totalStats") =>
        /\ (Supplied(dateFrom) /\ Supplied(dateTo)) =>
               totalStats.sprintsCompleted = C8_WholeSprints
        /\ (~Supplied(dateFrom) /\ ~Supplied(dateTo)) =>
               totalStats.sprintsCompleted = 0

\* C8 in the current adapter alone.
C8_HoldsInCurrentAdapter ==
    variant = "azure-devops.ts" => C8_SprintsCompletedFollowsBounds

\* C8 for supplied bounds in both versions.
C8_HoldsForSuppliedBounds ==
    (HasRun("totalStats") /\ Supplied(dateFrom) /\ Supplied(dateTo)) =>
        totalStats.sprintsCompleted = C8_WholeSprints

\* The two cases of C8 reached: bounds 28 days apart give 2 in both versions.
C8_TwoSprints ==
    /\ HasRun("totalStats")
    /\ Supplied(dateFrom) /\ Supplied(dateTo)
    /\ DayNumber(Val(dateTo)) - DayNumber(Val(dateFrom)) = 2 * SprintDays
    /\ totalStats.sprintsCompleted = 2

\* part_009 without bounds: 26 sprints, the 14-day periods of the defaulted
\* 365 days.
C8_Part009WithoutBounds ==
    /\ HasRun("totalStats")
    /\ variant = "part_009"
    /\ dateFrom = None /\ dateTo = None
    /\ totalStats.sprintsCompleted = 26

-----------------------------------------------------------------------------
(* Inputs of the busiest-days ranking: one more date than the ranking keeps, *)
(* every combination of commits per date, dates in calendar order or the     *)
(* reverse, the commits of a date at different hours.                        *)

DayMaxCommits == 2

BusyDates == [i \in 1..(Top5Size + 1) |-> <<2024, 3, 14 + i>>]

\* n commits on the date, at the hours 9, 10, ...
CommitsOn(date, n) == [k \in 1..n |-> Commit(1, date, 8 + k, Message)]

RECURSIVE CommitsPerDate(_, _)
CommitsPerDate(dates, counts) ==
    IF dates = <<>> THEN <<>>
    ELSE CommitsOn(Head(dates), Head(counts)) \o CommitsPerDate(Tail(dates), Tail(counts))

Reverse(s) == [i \in 1..Len(s) |-> s[Len(s) + 1 - i]]

DayCommits ==
    LET counts == [1..Len(BusyDates) -> 0..DayMaxCommits]
    IN  {CommitsPerDate(BusyDates, c) : c \in counts}
            \cup {Reverse(CommitsPerDate(BusyDates, c)) : c \in counts}
            \cup {CommitsOn(BusyDates[2], 1) \o CommitsOn(BusyDates[1], 5)
                      \o CommitsOn(BusyDates[2], 1)}

InitDays ==
    /\ commits \in DayCommits
    /\ pullRequests = <<>>
    /\ workItems = <<>>
    /\ dateFrom = None /\ dateTo = None
    /\ prComments = 0
    /\ fileChanges = <<>>
    /\ today = SomeDay
    /\ Fetched

SpecDays == InitDays /\ [][Next]_vars

C9_Dates == {DatePart(commits[i].author.date) : i \in 1..Len(commits)}

C9_CommitsOn(date) ==
    Cardinality({i \in 1..Len(commits) : DatePart(commits[i].author.date) = date})

\* C9: top5.busiestDaysByCommits lists min(5, number of commit dates)
\* different dates, each with the number of commits whose timestamp has that
\* date part, in descending order of that number; its first entry has the
\* largest number of any date, and no date left out has more commits than a
\* date listed.
C9_BusiestDaysRankDatesByCommits ==
    HasRun("calculateTop5") =>
        LET days == top5.busiestDaysByCommits
            n    == Cardinality(C9_Dates)
        IN  /\ Len(days) = (IF n < 5 THEN n ELSE 5)
            /\ \A i, j \in 1..Len(days) : days[i].date = days[j].date => i = j
            /\ \A i \in 1..Len(days) :
                   /\ days[i].date \in C9_Dates
                   /\ days[i].commits = C9_CommitsOn(days[i].date)
            /\ \A i \in 1..(Len(days) - 1) : days[i].commits >= days[i + 1].commits
            /\ days # <<>> => \A d \in C9_Dates : C9_CommitsOn(d) <= days[1].commits
            /\ \A d \in C9_Dates :
                   (\A i \in 1..Len(days) : days[i].date # d) =>
                       \A i \in 1..Len(days) : C9_CommitsOn(d) <= days[i].commits

\* C9 witness: five commits on 2024-03-15 and two on 2024-03-16, one of
\* those received first: the ranking is 2024-03-15 with 5, 2024-03-16 with 2.
C9_Witness ==
    /\ HasRun("calculateTop5")
    /\ commits # <<>>
    /\ DatePart(commits[1].author.date) = <<2024, 3, 16>>
    /\ top5.busiestDaysByCommits
           = <<[date |-> <<2024, 3, 15>>, commits |-> 5],
               [date |-> <<2024, 3, 16>>, commits |-> 2]>>

\* C9, the cut: six dates with commits, the one left out has the fewest.
C9_WitnessCut ==
    /\ HasRun("calculateTop5")
    /\ Cardinality(C9_Dates) = Top5Size + 1
    /\ Len(top5.busiestDaysByCommits) = Top5Size
    /\ \E d \in C9_Dates :
           /\ \A i \in 1..Top5Size : top5.busiestDaysByCommits[i].date # d
           /\ C9_CommitsOn(d) < top5.busiestDaysByCommits[Top5Size].commits

-----------------------------------------------------------------------------
(* A second request with the same configuration: the fetches return the same *)
(* collections and fetchAzureDevOpsData runs on them again.                  *)

TwiceMaxItems == 2

TwiceCommitValues == {Commit(1, SomeDay, 10, Message), Commit(2, SomeDay, 23, Message)}

TwicePullRequestValues ==
    {PullRequest(1, "completed", Timestamp(SomeDay, 9), Some(Timestamp(SomeDay, 12)),
                 Some(<<2, 3>>)),
     PullRequest(3, "active", Timestamp(SomeDay, 9), None, None)}

TwiceWorkItemValues ==
    {WorkItem("Bug", "Done", Some(1), Some(3), Some(TeamBackendAPI)),
     WorkItem("Task", "Active", None, None, None)}

InitTwice ==
    /\ commits \in SeqsUpTo(TwiceCommitValues, TwiceMaxItems)
    /\ pullRequests \in SeqsUpTo(TwicePullRequestValues, TwiceMaxItems)
    /\ workItems \in SeqsUpTo(TwiceWorkItemValues, TwiceMaxItems)
    /\ dateFrom = None /\ dateTo = None
    /\ prComments = 0
    /\ fileChanges = <<>>
    /\ today = SomeDay
    /\ Fetched

\* What the first run received and what its Aggregator returned.
Snapshot ==
    [commits |-> commits, pullRequests |-> pullRequests, workItems |-> workItems,
     contributors |-> contributorStats, modules |-> moduleStats, funFacts |-> funFacts]

\* The first run has returned; the second starts on the same collections.
RunAgain ==
    /\ pc = "return"
    /\ runs = 0
    /\ runs' = 1
    /\ firstRun' = Some(Snapshot)
    /\ pc' = "calculatePrMergeStats"
    /\ UNCHANGED <<inputVars, outputVars, done>>

NextTwice ==
    \/ Next
    \/ RunAgain

SpecTwice == InitTwice /\ [][NextTwice]_vars

-----------------------------------------------------------------------------
(* Inputs of the two cuts: more authors than the contributor list keeps,     *)
(* and work items of one more module than the module list keeps, with every  *)
(* combination of story points and with points rising from module to module. *)

CutMaxPoints == 1

ModuleLetters == <<"a", "b", "c", "d", "e", "f", "g">>

\* One work item per module "M\a", "M\b", ..., the i-th with points[i].
WorkItemsPerModule(points) ==
    [i \in 1..Len(ModuleLetters) |->
        WorkItem("Task", "Done", None, Some(points[i]), Some(<<"M", Backslash, ModuleLetters[i]>>))]

CutWorkItems ==
    {WorkItemsPerModule(points) : points \in [1..Len(ModuleLetters) -> 0..CutMaxPoints]}

RisingWorkItems == WorkItemsPerModule([i \in 1..Len(ModuleLetters) |-> i])

InitCut ==
    /\ \/ commits \in AggCommits /\ workItems = <<>>
       \/ commits = <<>> /\ workItems \in CutWorkItems
       \/ commits = Ladder(Cardinality(AggNames)) /\ workItems = RisingWorkItems
    /\ pullRequests = <<>>
    /\ dateFrom = None /\ dateTo = None
    /\ prComments = 0
    /\ fileChanges = <<>>
    /\ today = SomeDay
    /\ Fetched

SpecCut == InitCut /\ [][Next]_vars

\* list is the first Len(list) entries of a descending ordering of all by
\* the key: entries of all, each once, in descending order of the key, and
\* no entry of all left out has a larger key than one in the list.
C11_LeadsDescending(list, all, limit, Key(_)) ==
    /\ Len(list) = (IF Len(all) < limit THEN Len(all) ELSE limit)
    /\ \A i, j \in 1..Len(list) : list[i].name = list[j].name => i = j
    /\ \A i \in 1..Len(list) : \E k \in 1..Len(all) : all[k] = list[i]
    /\ \A i \in 1..(Len(list) - 1) : Key(list[i]) >= Key(list[i + 1])
    /\ \A k \in 1..Len(all) :
           (\A i \in 1..Len(list) : list[i].name # all[k].name) =>
               \A i \in 1..Len(list) : Key(all[k]) <= Key(list[i])

\* C11: the contributor list has at most 10 entries, in descending order of
\* commits, and no contributor of the full map left out has more commits
\* than one listed; the module list has at most 6 entries, in descending
\* order of story points, and no module left out has more story points than
\* one listed; without commits and pull requests the contributor list is
\* empty, without work items the module list is empty.
C11_ListsAreLeadingEntries ==
    HasRun("aggregateModuleStats") =>
        /\ Len(contributorStats) <= 10
        /\ C11_LeadsDescending(contributorStats, contributorMap, 10, LAMBDA c : c.commits)
        /\ Len(moduleStats) <= 6
        /\ C11_LeadsDescending(moduleStats, moduleMap, 6, LAMBDA m : m.storyPointsDone)
        /\ (commits = <<>> /\ pullRequests = <<>>) => contributorStats = <<>>
        /\ workItems = <<>> => moduleStats = <<>>

\* C11 witness: eleven contributors and seven modules, the seventh with the
\* most story points: both lists are cut, and the module received first,
\* with the fewest points, is the one left out.
C11_Witness ==
    /\ HasRun("aggregateModuleStats")
    /\ Len(contributorMap) = 11 /\ Len(contributorStats) = 10
    /\ Len(moduleMap) = 7 /\ Len(moduleStats) = 6
    /\ moduleStats[1].name = moduleMap[7].name
    /\ moduleStats[1].storyPointsDone > moduleStats[6].storyPointsDone
    /\ \A i \in 1..6 : moduleStats[i].name # moduleMap[1].name

-----------------------------------------------------------------------------
(* Inputs of the loop over work items: assignees absent, known from a        *)
(* commit, known as a reviewer and unknown; bugs done and open, another      *)
(* type; with and without a story-point estimate.                            *)

WorkMaxItems == 2

WorkAssignees == {None, Some(1), Some(3), Some(4)}

WorkItemValues ==
    {WorkItem("Bug", "Done", a, None, None) : a \in WorkAssignees}
        \cup {WorkItem("Bug", "Done", a, Some(5), None) : a \in WorkAssignees}
        \cup {WorkItem("Bug", "Active", a, Some(3), None) : a \in WorkAssignees}
        \cup {WorkItem("Task", "Done", a, Some(2), None) : a \in WorkAssignees}

InitWork ==
    /\ workItems \in SeqsUpTo(WorkItemValues, WorkMaxItems)
    /\ \/ commits = <<>> /\ pullRequests = <<>>
       \/ /\ commits = <<Commit(1, SomeDay, 10, Message)>>
          /\ pullRequests = <<PullRequest(2, "active", Timestamp(SomeDay, 9), None,
                                           Some(<<3>>))>>
    /\ dateFrom = None /\ dateTo = None
    /\ prComments = 0
    /\ fileChanges = <<>>
    /\ today = SomeDay
    /\ Fetched

SpecWork == InitWork /\ [][Next]_vars

\* The names of commit authors, pull-request authors and reviewers.
C12_KnownNames ==
    {commits[i].author.name : i \in 1..Len(commits)}
        \cup {pullRequests[i].createdBy : i \in 1..Len(pullRequests)}
        \cup UNION {Range(Val(pullRequests[i].reviewers)) :
                       i \in {j \in 1..Len(pullRequests) : pullRequests[j].reviewers # None}}

\* The work items assigned to the name.
C12_AssignedTo(name) == SelectSeq(workItems, LAMBDA wi : wi.assignedTo = Some(name))

\* C12: the contributor map holds exactly the commit authors, pull-request
\* authors and reviewers, so no work item creates an entry and an item with
\* an absent or unknown assignee changes nothing; each contributor's
\* storyPointsDone is the sum of the estimates (0 when missing) of all items
\* assigned to the contributor, whatever their type and state, and bugsFixed
\* is the number of those items with type "Bug" and state "Done".
C12_WorkItemsOnlyUpdateKnownAssignees ==
    HasRun("aggregateContributorStats") =>
        /\ {contributorMap[i].name : i \in 1..Len(contributorMap)} = C12_KnownNames
        /\ \A i \in 1..Len(contributorMap) :
               LET mine == C12_AssignedTo(contributorMap[i].name)
               IN  /\ contributorMap[i].storyPointsDone
                          = SumSeq([k \in 1..Len(mine) |->
                                       IF mine[k].storyPoints = None THEN 0
                                       ELSE Val(mine[k].storyPoints)])
                   /\ contributorMap[i].bugsFixed
                          = Cardinality({k \in 1..Len(mine) :
                                            mine[k].type = "Bug" /\ mine[k].state = "Done"})

\* C12 witness: an open bug with 3 points assigned to the reviewer and a done
\* bug assigned to nobody in the map: three contributors, the reviewer with
\* 3 story points and no bug fixed.
C12_Witness ==
    /\ HasRun("aggregateContributorStats")
    /\ workItems = <<WorkItem("Bug", "Active", Some(3), Some(3), None),
                     WorkItem("Bug", "Done", Some(4), Some(5), None)>>
    /\ Len(contributorMap) = 3
    /\ contributorMap[3].name = 3
    /\ contributorMap[3].storyPointsDone = 3
    /\ contributorMap[3].bugsFixed = 0

-----------------------------------------------------------------------------
(* Inputs of the highlight gates: each of commits, pull requests, review     *)
(* comments and file changes present or not, and every number of work items  *)
(* of each of the types that have a sentence, with or without story points.  *)

CapMaxPerType == 1

CapTypes == <<"Bug", "Feature", "Test Case", "Requirement">>

RECURSIVE WorkItemsOfTypes(_, _, _)
WorkItemsOfTypes(types, counts, points) ==
    IF types = <<>> THEN <<>>
    ELSE Repeat(WorkItem(Head(types), "Done", None, points, None), Head(counts))
             \o WorkItemsOfTypes(Tail(types), Tail(counts), points)

CapWorkItems ==
    {WorkItemsOfTypes(CapTypes, counts, points) :
        counts \in [1..Len(CapTypes) -> 0..CapMaxPerType], points \in {None, Some(3)}}

InitCap ==
    /\ workItems \in CapWorkItems
    /\ commits \in {<<>>, <<Commit(1, SomeDay, 10, Message)>>}
    /\ pullRequests \in {<<>>, <<SomePullRequest>>}
    /\ prComments \in {0, 2}
    /\ fileChanges \in {<<>>, <<FileChange(Some(<<"a">>), "add", Some(40))>>}
    /\ dateFrom = None /\ dateTo = None
    /\ today = SomeDay
    /\ Fetched

SpecCap == InitCap /\ [][Next]_vars

\* C13: the highlights list of the Azure DevOps adapter never has more than
\* 8 entries, whatever gates are open.
C13_AtMostEightHighlights ==
    HasRun("generateHighlights") => Len(highlights) <= 8

\* C13, what the adapter keeps to: never more than 10 entries.
C13_AtMostTenHighlights ==
    HasRun("generateHighlights") => Len(highlights) <= MaxHighlights

\* C13 reached: every gate open, eleven sentences pushed, ten returned, the
\* last one the count of team members.
C13_TenHighlights ==
    /\ HasRun("generateHighlights")
    /\ Len(workItems) = Len(CapTypes)
    /\ Len(highlights) = 10
    /\ highlights[10].kind = "team members contributed"

-----------------------------------------------------------------------------
(* The statements of fetchAzureDevOpsData run in any order their const       *)
(* bindings allow. A statement whose call names a binding that has not been  *)
(* initialised yet throws a ReferenceError.                                  *)

\* The results of earlier statements that the call of a statement names.
Reads_AggregatorIsLeaf(statement) ==
    CASE statement = "calculateTop5" -> {"aggregateContributorStats", "calculateStreaks"}
      [] statement = "generateHighlights" -> {"aggregateCodeChanges", "calculateActivityPattern"}
      [] statement = "generateFunFacts" ->
             {"calculateActivityPattern", "calculatePrMergeStats", "calculateStreaks"}
      [] statement = "totalStats" ->
             {"aggregateCodeChanges", "calculatePrMergeStats", "calculateStreaks"}
      [] OTHER -> {}

Reads(statement) ==
    CASE statement = "aggregateContributorStats" -> {"calculatePrMergeStats", "calculateStreaks"}
      [] statement = "calculateTop5" -> {"aggregateContributorStats", "calculateStreaks"}
      [] statement = "generateHighlights" -> {"aggregateCodeChanges", "calculateActivityPattern"}
      [] statement = "generateFunFacts" ->
             {"calculateActivityPattern", "calculatePrMergeStats", "calculateStreaks"}
      [] statement = "totalStats" ->
             {"aggregateCodeChanges", "calculatePrMergeStats", "calculateStreaks"}
      [] OTHER -> {}

\* A statement is taken up once, when every result it is held to read is there.
Take(statement) ==
    /\ pc = "any order"
    /\ statement \notin done
    /\ Reads(statement) \subseteq done
    /\ done' = done \cup {statement}
    /\ UNCHANGED <<inputVars, runs, firstRun>>

Throw ==
    /\ pc' = "ReferenceError"
    /\ UNCHANGED outputVars

RunCalculatePrMergeStats ==
    /\ Take("calculatePrMergeStats")
    /\ pc' = pc
    /\ prMergeStats' = calculatePrMergeStats(pullRequests)
    /\ UNCHANGED <<activityPattern, streakData, codeChanges, contributorMap,
                   contributorStats, moduleMap, moduleStats, top5, highlights,
                   funFacts, milestones, totalStats>>

RunCalculateActivityPattern ==
    /\ Take("calculateActivityPattern")
    /\ pc' = pc
    /\ activityPattern' = calculateActivityPattern(commits)
    /\ UNCHANGED <<prMergeStats, streakData, codeChanges, contributorMap,
                   contributorStats, moduleMap, moduleStats, top5, highlights,
                   funFacts, milestones, totalStats>>

RunCalculateStreaks ==
    /\ Take("calculateStreaks")
    /\ pc' = pc
    /\ streakData' = calculateStreaks(commits)
    /\ UNCHANGED <<prMergeStats, activityPattern, codeChanges, contributorMap,
                   contributorStats, moduleMap, moduleStats, top5, highlights,
                   funFacts, milestones, totalStats>>

RunAggregateCodeChanges ==
    /\ Take("aggregateCodeChanges")
    /\ pc' = pc
    /\ codeChanges' = aggregateCodeChanges(fileChanges)
    /\ UNCHANGED <<prMergeStats, activityPattern, streakData, contributorMap,
                   contributorStats, moduleMap, moduleStats, top5, highlights,
                   funFacts, milestones, totalStats>>

RunAggregateContributorStats ==
    /\ Take("aggregateContributorStats")
    /\ IF {"calculatePrMergeStats", "calculateStreaks"} \subseteq done
       THEN /\ pc' = pc
            /\ contributorMap' = ContributorMap(commits, pullRequests, workItems,
                                      prMergeStats, streakData)
            /\ contributorStats' = aggregateContributorStats(commits, pullRequests, workItems,
                                                    prMergeStats, streakData)
            /\ UNCHANGED <<prMergeStats, activityPattern, streakData, codeChanges,
                           moduleMap, moduleStats, top5, highlights, funFacts,
                           milestones, totalStats>>
       ELSE Throw

RunAggregateModuleStats ==
    /\ Take("aggregateModuleStats")
    /\ pc' = pc
    /\ moduleMap' = ModuleMap(workItems)
    /\ moduleStats' = aggregateModuleStats(workItems)
    /\ UNCHANGED <<prMergeStats, activityPattern, streakData, codeChanges,
                   contributorMap, contributorStats, top5, highlights, funFacts,
                   milestones, totalStats>>

RunCalculateTop5 ==
    /\ Take("calculateTop5")
    /\ IF {"aggregateContributorStats", "calculateStreaks"} \subseteq done
       THEN /\ pc' = pc
            /\ top5' = calculateTop5(contributorStats, commits, streakData)
            /\ UNCHANGED <<prMergeStats, activityPattern, streakData, codeChanges,
                           contributorMap, contributorStats, moduleMap, moduleStats,
                           highlights, funFacts, milestones, totalStats>>
       ELSE Throw

RunGenerateHighlights ==
    /\ Take("generateHighlights")
    /\ IF {"aggregateCodeChanges", "calculateActivityPattern"} \subseteq done
       THEN /\ pc' = pc
            /\ highlights' = generateHighlights(commits, pullRequests, workItems, prComments,
                                        codeChanges, activityPattern)
            /\ UNCHANGED <<prMergeStats, activityPattern, streakData, codeChanges,
                           contributorMap, contributorStats, moduleMap, moduleStats,
                           top5, funFacts, milestones, totalStats>>
       ELSE Throw

RunGenerateFunFacts ==
    /\ Take("generateFunFacts")
    /\ IF {"calculateActivityPattern", "calculatePrMergeStats", "calculateStreaks"} \subseteq done
       THEN /\ pc' = pc
            /\ funFacts' = generateFunFacts(commits, pullRequests, workItems, activityPattern,
                                    prMergeStats, streakData)
            /\ UNCHANGED <<prMergeStats, activityPattern, streakData, codeChanges,
                           contributorMap, contributorStats, moduleMap, moduleStats,
                           top5, highlights, milestones, totalStats>>
       ELSE Throw

RunGenerateMilestones ==
    /\ Take("generateMilestones")
    /\ pc' = pc
    /\ milestones' = generateMilestones(commits, pullRequests, workItems, dateFrom, dateTo)
    /\ UNCHANGED <<prMergeStats, activityPattern, streakData, codeChanges,
                   contributorMap, contributorStats, moduleMap, moduleStats, top5,
                   highlights, funFacts, totalStats>>

RunComputeTotalStats ==
    /\ Take("totalStats")
    /\ IF {"aggregateCodeChanges", "calculatePrMergeStats", "calculateStreaks"} \subseteq done
       THEN /\ pc' = pc
            /\ totalStats' = TotalStats(commits, pullRequests, workItems, prComments,
                                codeChanges, prMergeStats, streakData, dateFrom, dateTo)
            /\ UNCHANGED <<prMergeStats, activityPattern, streakData, codeChanges,
                           contributorMap, contributorStats, moduleMap, moduleStats,
                           top5, highlights, funFacts, milestones>>
       ELSE Throw

NextAnyOrder ==
    \/ RunCalculatePrMergeStats
    \/ RunCalculateActivityPattern
    \/ RunCalculateStreaks
    \/ RunAggregateCodeChanges
    \/ RunAggregateContributorStats
    \/ RunAggregateModuleStats
    \/ RunCalculateTop5
    \/ RunGenerateHighlights
    \/ RunGenerateFunFacts
    \/ RunGenerateMilestones
    \/ RunComputeTotalStats

\* Inputs of the reordered run: commits of two authors on two consecutive days,
\* with or without a completed pull request.
OrderMaxCommits == 2

OrderCommitValues ==
    {Commit(1, StreakDays[1], 10, Message), Commit(1, StreakDays[2], 10, Message),
     Commit(2, StreakDays[2], 23, Message)}

InitOrder ==
    /\ commits \in SeqsUpTo(OrderCommitValues, OrderMaxCommits)
    /\ pullRequests \in {<<>>, <<SomePullRequest>>}
    /\ workItems = <<>>
    /\ dateFrom = None /\ dateTo = None
    /\ prComments = 0
    /\ fileChanges = <<>>
    /\ today = SomeDay
    /\ variant = "azure-devops.ts"
    /\ server = None
    /\ pc = "any order"
    /\ NothingComputed
    /\ NothingSaved

SpecOrder == InitOrder /\ [][NextAnyOrder]_vars

C14_Three == {"calculateTop5", "calculateActivityPattern", "calculateStreaks"}

\* Every statement whose result reaches the given one, directly or through
\* the results it reads.
RECURSIVE C14_Before(_)
C14_Before(statement) ==
    Reads(statement) \cup UNION {C14_Before(read) : read \in Reads(statement)}

\* What the statements return when they run in source order.
C14_InSourceOrder ==
    LET merge        == calculatePrMergeStats(pullRequests)
        activity     == calculateActivityPattern(commits)
        streaks      == calculateStreaks(commits)
        code         == aggregateCodeChanges(fileChanges)
        contributors == aggregateContributorStats(commits, pullRequests, workItems,
                                                  merge, streaks)
    IN  [prMergeStats     |-> merge,
         activityPattern  |-> activity,
         streakData       |-> streaks,
         codeChanges      |-> code,
         contributorStats |-> contributors,
         moduleStats      |-> aggregateModuleStats(workItems),
         top5             |-> calculateTop5(contributors, commits, streaks),
         highlights       |-> generateHighlights(commits, pullRequests, workItems,
                                                 prComments, code, activity),
         funFacts         |-> generateFunFacts(commits, pullRequests, workItems, activity,
                                               merge, streaks),
         milestones       |-> generateMilestones(commits, pullRequests, workItems,
                                                 dateFrom, dateTo),
         totalStats       |-> TotalStats(commits, pullRequests, workItems, prComments,
                                         code, merge, streaks, dateFrom, dateTo)]

C14_SameAsInSourceOrder ==
    /\ "calculatePrMergeStats" \in done => prMergeStats = C14_InSourceOrder.prMergeStats
    /\ "calculateActivityPattern" \in done =>
           activityPattern = C14_InSourceOrder.activityPattern
    /\ "calculateStreaks" \in done => streakData = C14_InSourceOrder.streakData
    /\ "aggregateCodeChanges" \in done => codeChanges = C14_InSourceOrder.codeChanges
    /\ "aggregateContributorStats" \in done =>
           contributorStats = C14_InSourceOrder.contributorStats
    /\ "aggregateModuleStats" \in done => moduleStats = C14_InSourceOrder.moduleStats
    /\ "calculateTop5" \in done => top5 = C14_InSourceOrder.top5
    /\ "generateHighlights" \in done => highlights = C14_InSourceOrder.highlights
    /\ "generateFunFacts" \in done => funFacts = C14_InSourceOrder.funFacts
    /\ "generateMilestones" \in done => milestones = C14_InSourceOrder.milestones
    /\ "totalStats" \in done => totalStats = C14_InSourceOrder.totalStats

-----------------------------------------------------------------------------
(* Pull requests around the limits of the merge time: closed an hour before  *)
(* they were created, in the same hour, three hours later, an hour short of  *)
(* a year later and exactly a year later; never closed; closed but not       *)
(* completed; and one of a second author.                                    *)

MergeMaxItems == 2

Created == Timestamp(SomeDay, 9)

AYearLater == <<2025, 3, 15>>

MergeClosedDates ==
    {None, Some(Timestamp(SomeDay, 8)), Some(Created), Some(Timestamp(SomeDay, 12)),
     Some(Timestamp(AYearLater, 8)), Some(Timestamp(AYearLater, 9))}

MergePullRequestValues ==
    {PullRequest(1, "completed", Created, closed, None) : closed \in MergeClosedDates}
        \cup {PullRequest(1, "active", Created, Some(Timestamp(SomeDay, 12)), None),
              PullRequest(1, "abandoned", Created, Some(Timestamp(SomeDay, 12)), None),
              PullRequest(2, "completed", Created, Some(Timestamp(SomeDay, 14)), None)}

InitMerge ==
    /\ pullRequests \in SeqsUpTo(MergePullRequestValues, MergeMaxItems)
    /\ commits = <<>>
    /\ workItems = <<>>
    /\ dateFrom = None /\ dateTo = None
    /\ prComments = 0
    /\ fileChanges = <<>>
    /\ today = SomeDay
    /\ Fetched

SpecMerge == InitMerge /\ [][Next]_vars

\* The positions of the pull requests that are completed, have a closing
\* time, and were closed more than 0 and less than 8760 hours after creation.
C15_Qualifying ==
    {i \in 1..Len(pullRequests) :
        /\ pullRequests[i].status = "completed"
        /\ pullRequests[i].closedDate # None
        /\ GetTime(Val(pullRequests[i].closedDate)) - GetTime(pullRequests[i].creationDate) > 0
        /\ GetTime(Val(pullRequests[i].closedDate)) - GetTime(pullRequests[i].creationDate) < 8760}

C15_Hours(i) ==
    GetTime(Val(pullRequests[i].closedDate)) - GetTime(pullRequests[i].creationDate)

RECURSIVE C15_Sum(_)
C15_Sum(positions) ==
    IF positions = {} THEN 0
    ELSE LET i == CHOOSE x \in positions : TRUE
         IN  C15_Hours(i) + C15_Sum(positions \ {i})

C15_QualifyingOf(author) == {i \in C15_Qualifying : pullRequests[i].createdBy = author}

\* C15: calculatePrMergeStats counts exactly the completed pull requests with
\* a closing time more than 0 and less than 8760 hours after creation: the
\* average is the rounded mean of their hours, the fastest their minimum, an
\* author's list holds that author's qualifying hours in order and no author
\* without a qualifying pull request has a list; with none qualifying both
\* statistics are 0.
C15_OnlyQualifyingPullRequestsCount ==
    HasRun("calculatePrMergeStats") =>
        /\ prMergeStats.avgMergeTimeHours =
               IF C15_Qualifying = {} THEN 0
               ELSE RoundDiv(C15_Sum(C15_Qualifying), Cardinality(C15_Qualifying))
        /\ prMergeStats.fastestMergeTimeHours =
               IF C15_Qualifying = {} THEN 0
               ELSE CHOOSE h \in {C15_Hours(i) : i \in C15_Qualifying} :
                        \A i \in C15_Qualifying : h <= C15_Hours(i)
        /\ DOMAIN prMergeStats.mergeTimeByAuthor =
               {pullRequests[i].createdBy : i \in C15_Qualifying}
        /\ \A author \in DOMAIN prMergeStats.mergeTimeByAuthor :
               LET times == prMergeStats.mergeTimeByAuthor[author]
               IN  /\ Len(times) = Cardinality(C15_QualifyingOf(author))
                   /\ \E at \in [1..Len(times) -> C15_QualifyingOf(author)] :
                          /\ \A j, k \in 1..Len(times) : j < k => at[j] < at[k]
                          /\ \A j \in 1..Len(times) : times[j] = C15_Hours(at[j])

\* C15 reached: a pull request merged after exactly 8760 hours next to one
\* merged after 8759 hours; only the second is counted.
C15_Witness ==
    /\ HasRun("calculatePrMergeStats")
    /\ pullRequests = <<PullRequest(1, "completed", Created, Some(Timestamp(AYearLater, 9)), None),
                        PullRequest(1, "completed", Created, Some(Timestamp(AYearLater, 8)), None)>>
    /\ prMergeStats.avgMergeTimeHours = 8759
    /\ prMergeStats.fastestMergeTimeHours = 8759
    /\ prMergeStats.mergeTimeByAuthor[1] = <<8759>>

\* C15 reached without a qualifying pull request: both statistics are 0 and
\* no author has a list.
C15_WitnessNoneQualifies ==
    /\ HasRun("calculatePrMergeStats")
    /\ pullRequests = <<PullRequest(1, "completed", Created, Some(Created), None),
                        PullRequest(1, "active", Created, Some(Timestamp(SomeDay, 12)), None)>>
    /\ prMergeStats.avgMergeTimeHours = 0
    /\ prMergeStats.fastestMergeTimeHours = 0
    /\ DOMAIN prMergeStats.mergeTimeByAuthor = {}

-----------------------------------------------------------------------------
(* Every number of pull requests up to RateMaxPullRequests with every       *)
(* number of completed ones among them, the completed ones first.           *)

RateMaxPullRequests == 40

RatePullRequests ==
    {Repeat(SomePullRequest, completed)
         \o Repeat(PullRequest(1, "active", Created, None, None), total - completed) :
        <<completed, total>> \in {p \in (0..RateMaxPullRequests) \X (0..RateMaxPullRequests) :
                                     p[1] <= p[2]}}

InitRate ==
    /\ pullRequests \in RatePullRequests
    /\ commits = <<>>
    /\ workItems = <<>>
    /\ dateFrom = None /\ dateTo = None
    /\ prComments = 0
    /\ fileChanges = <<>>
    /\ today = SomeDay
    /\ Fetched

SpecRate == InitRate /\ [][Next]_vars

C16_Completed == Cardinality({i \in 1..Len(pullRequests) : pullRequests[i].status = "completed"})

\* C16: prMergeRate is the percentage of completed pull requests rounded to
\* the nearest integer, 0 for an empty list, and so an integer from 0 to 100.
C16_RateIsRoundedPercentage ==
    HasRun("totalStats") =>
        /\ totalStats.prMergeRate \in 0..100
        /\ totalStats.prMergeRate =
               IF Len(pullRequests) = 0 THEN 0
               ELSE (200 * C16_Completed + Len(pullRequests)) \div (2 * Len(pullRequests))

\* C16, what the adapter keeps to: an integer from 0 to 100, 0 for an empty
\* list, and never further than 1 below the rounded percentage.
C16_RateWithinOneOfPercentage ==
    HasRun("totalStats") =>
        LET percentage == (200 * C16_Completed + Len(pullRequests)) \div (2 * Len(pullRequests))
        IN  /\ totalStats.prMergeRate \in 0..100
            /\ Len(pullRequests) = 0 => totalStats.prMergeRate = 0
            /\ Len(pullRequests) > 0 => totalStats.prMergeRate \in {percentage - 1, percentage}

\* C16 reached: 23 of 40 pull requests completed, 57.5 percent, reported as 57.
C16_TwentyThreeOfForty ==
    /\ HasRun("totalStats")
    /\ Len(pullRequests) = 40
    /\ C16_Completed = 23
    /\ totalStats.prMergeRate = 57

-----------------------------------------------------------------------------
(* Commits on a Friday, a Sunday and a Monday, at midnight, in the morning   *)
(* and in the last hour of the day.                                          *)

ActivityMaxCommits == 3

Friday == <<2024, 3, 15>>

Sunday == <<2024, 3, 17>>

Monday == <<2024, 3, 18>>

ActivityCommitValues ==
    {Commit(1, Friday, 10, Message), Commit(1, Friday, 23, Message),
     Commit(1, Sunday, 0, Message), Commit(1, Sunday, 10, Message),
     Commit(1, Monday, 0, Message), Commit(1, Monday, 23, Message)}

InitActivity ==
    /\ commits \in SeqsUpTo(ActivityCommitValues, ActivityMaxCommits)
    /\ pullRequests = <<>>
    /\ workItems = <<>>
    /\ dateFrom = None /\ dateTo = None
    /\ prComments = 0
    /\ fileChanges = <<>>
    /\ today = SomeDay
    /\ Fetched

SpecActivity == InitActivity /\ [][Next]_vars

\* The day of the week of a commit counted in days from a known Sunday.
C17_DayOfWeek(c) == (DayNumber(c.author.date.date) - DayNumber(Sunday)) % 7

C17_CommitsAtHour(h) ==
    Cardinality({i \in 1..Len(commits) : commits[i].author.date.hour = h})

C17_CommitsOnDay(d) ==
    Cardinality({i \in 1..Len(commits) : C17_DayOfWeek(commits[i]) = d})

\* position, counted from 0, is the lowest one holding the maximum of histogram
C17_LowestMaximum(histogram, position) ==
    /\ position \in 0..(Len(histogram) - 1)
    /\ \A i \in 1..Len(histogram) : histogram[i] <= histogram[position + 1]
    /\ \A i \in 1..position : histogram[i] < histogram[position + 1]

C17_DayNames ==
    <<"Sunday", "Monday", "Tuesday", "Wednesday", "Thursday", "Friday", "Saturday">>

\* C17: calculateActivityPattern returns a histogram of 24 hours and one of 7
\* days of the week starting on Sunday, each entry the number of commits of
\* that hour or day and each histogram summing to the number of commits;
\* busiestHour and busiestDay are the lowest index holding the maximum.
C17_HistogramsAndBusiest ==
    HasRun("calculateActivityPattern") =>
        /\ Len(activityPattern.hourlyDistribution) = 24
        /\ Len(activityPattern.dailyDistribution) = 7
        /\ \A h \in 0..23 : activityPattern.hourlyDistribution[h + 1] = C17_CommitsAtHour(h)
        /\ \A d \in 0..6 : activityPattern.dailyDistribution[d + 1] = C17_CommitsOnDay(d)
        /\ SumSeq(activityPattern.hourlyDistribution) = Len(commits)
        /\ SumSeq(activityPattern.dailyDistribution) = Len(commits)
        /\ C17_LowestMaximum(activityPattern.hourlyDistribution, activityPattern.busiestHour)
        /\ \E d \in 0..6 :
               /\ activityPattern.busiestDay = C17_DayNames[d + 1]
               /\ C17_LowestMaximum(activityPattern.dailyDistribution, d)

\* C17 reached: a Monday commit at 23 and then a Sunday commit at 0 tie both
\* histograms; the lower index wins, hour 0 and Sunday.
C17_Witness ==
    /\ HasRun("calculateActivityPattern")
    /\ commits = <<Commit(1, Monday, 23, Message), Commit(1, Sunday, 0, Message)>>
    /\ activityPattern.hourlyDistribution[24] = 1
    /\ activityPattern.dailyDistribution[2] = 1
    /\ activityPattern.busiestHour = 0
    /\ activityPattern.busiestDay = "Sunday"

-----------------------------------------------------------------------------
(* Commits at every hour of one day, so that every hour is the busiest one   *)
(* of some run.                                                              *)

PeakMaxCommits == 1

PeakCommitValues == {Commit(1, SomeDay, h, Message) : h \in 0..23}

InitPeak ==
    /\ commits \in SeqsUpTo(PeakCommitValues, PeakMaxCommits)
    /\ pullRequests = <<>>
    /\ workItems = <<>>
    /\ dateFrom = None /\ dateTo = None
    /\ prComments = 0
    /\ fileChanges = <<>>
    /\ today = SomeDay
    /\ Fetched

SpecPeak == InitPeak /\ [][Next]_vars

\* The labels that the stated hour ranges give to an hour.
C18_Labels(hour) ==
    (IF hour \in 5..11 THEN {"Morning"} ELSE {})
        \cup (IF hour \in 12..16 THEN {"Afternoon"} ELSE {})
        \cup (IF hour \in 17..20 THEN {"Evening"} ELSE {})
        \cup (IF hour \in (21..23) \cup (0..4) THEN {"Night"} ELSE {})

\* C18: the peak-productivity label is the one label that the ranges Morning
\* 5 to 11, Afternoon 12 to 16, Evening 17 to 20 and Night 21 to 23 and 0 to 4
\* give to the busiest hour, which is always an hour from 0 to 23.
C18_OneLabelPerBusiestHour ==
    HasRun("calculateActivityPattern") =>
        /\ activityPattern.busiestHour \in 0..23
        /\ C18_Labels(activityPattern.busiestHour) = {activityPattern.peakProductivityTime}

\* C18 reached: the only commit was made at 21, the first hour of the night.
C18_Witness ==
    /\ HasRun("calculateActivityPattern")
    /\ Len(commits) = 1
    /\ commits[1].author.date.hour = 21
    /\ activityPattern.busiestHour = 21
    /\ activityPattern.peakProductivityTime = "Night"

-----------------------------------------------------------------------------
(* The threshold milestone, under SpecMilestones: 0, 99 and 100 pull         *)
(* requests with dateTo absent, blank or a date.                             *)

\* The positions of the milestones with the given title.
C19_Positions(title) == {i \in 1..Len(milestones) : milestones[i].title = title}

\* C19: generateMilestones appends the "100 PRs Milestone" whenever there are
\* 100 pull requests or more and never when there are fewer; the entry is
\* dated at the period end and stands before "Period End" in the returned
\* list.
C19_ThresholdMilestoneFromHundred ==
    HasRun("generateMilestones") =>
        /\ Cardinality(C19_Positions("100 PRs Milestone")) =
               IF Len(pullRequests) >= 100 THEN 1 ELSE 0
        /\ \A i \in C19_Positions("100 PRs Milestone") :
               /\ dateTo # None
               /\ milestones[i].date = Val(dateTo)
               /\ \A j \in C19_Positions("Period End") : i < j

\* C19, what the adapter keeps to: the entry is appended when there are 100
\* pull requests or more and dateTo is supplied, and in no other case; it is
\* dated dateTo and stands before "Period End".
C19_ThresholdMilestoneNeedsPeriodEnd ==
    HasRun("generateMilestones") =>
        /\ Cardinality(C19_Positions("100 PRs Milestone")) =
               IF Len(pullRequests) >= 100 /\ Supplied(dateTo) THEN 1 ELSE 0
        /\ \A i \in C19_Positions("100 PRs Milestone") :
               /\ milestones[i].date = Val(dateTo)
               /\ C19_Positions("Period End") # {}
               /\ \A j \in C19_Positions("Period End") : i < j

\* C19 reached: 100 pull requests and no dateTo; the list holds the commit
\* milestones and no "100 PRs Milestone".
C19_HundredWithoutPeriodEnd ==
    /\ HasRun("generateMilestones")
    /\ Len(pullRequests) = 100
    /\ dateTo = None
    /\ Len(commits) = 1
    /\ C19_Positions("First Commit") # {}
    /\ C19_Positions("100 PRs Milestone") = {}

\* C19 reached with a period end: 100 pull requests, the entry dated dateTo
\* right before "Period End".
C19_HundredWithPeriodEnd ==
    /\ HasRun("generateMilestones")
    /\ Len(pullRequests) = 100
    /\ dateTo = Some(RangeEnd)
    /\ Len(milestones) >= 2
    /\ milestones[Len(milestones) - 1].title = "100 PRs Milestone"
    /\ milestones[Len(milestones) - 1].date = RangeEnd
    /\ milestones[Len(milestones)].title = "Period End"

-----------------------------------------------------------------------------
(* The fetches of fetchAzureDevOpsData. The server holds the repositories    *)
(* with their pull requests, comment threads, commits and changes, and the   *)
(* set of requests it fails; fetchAzureDevOps throws on a failed request.    *)
(* The promise of a fetch settles as Some(value) or, rejected, as None.      *)
(* fetchRepositories, whose list only feeds the repository statistics, is    *)
(* left out.                                                                 *)

CommentRepositories == 10

ChangeRepositories == 5

\* A request: what is asked, of which repository, about which of its items
Request(what, repository, item) == <<what, repository, item>>

Fails(request) == request \in server.failing

RECURSIVE ConcatAll(_)
ConcatAll(lists) == IF lists = <<>> THEN <<>> ELSE Head(lists) \o ConcatAll(Tail(lists))

\* reposResponse.value.slice(0, 10) of fetchCommits and fetchPullRequests
ReposToFetch == 10

\* const batchSize = 200
BatchSize == 200

\* The try around one repository of fetchCommits: a failed request is logged
\* and the repository adds nothing.
RepositoryCommits(r) ==
    IF Fails(Request("fetchCommits", r, 0)) THEN <<>> ELSE server.commits[r]

\* The repository that fails takes the whole fetch with it.
fetchCommits_RepositoryFailureRethrown ==
    LET reposToFetch == Slice(server.repositories, ReposToFetch)
    IN  IF \E r \in 0..Len(reposToFetch) : Fails(Request("fetchCommits", r, 0)) THEN None
        ELSE Some(ConcatAll([r \in 1..Len(reposToFetch) |-> server.commits[r]]))

\* fetchCommits: the repository list (request 0), then the commits of each of
\* the first ten repositories; the outer catch logs and rethrows.
fetchCommits ==
    IF Fails(Request("fetchCommits", 0, 0)) THEN None
    ELSE LET reposToFetch == Slice(server.repositories, ReposToFetch)
         IN  Some(ConcatAll([r \in 1..Len(reposToFetch) |-> RepositoryCommits(r)]))

\* The try around one repository of fetchPullRequests
RepositoryPullRequests(r) ==
    IF Fails(Request("fetchPullRequests", r, 0)) THEN <<>> ELSE server.pullRequests[r]

fetchPullRequests ==
    IF Fails(Request("fetchPullRequests", 0, 0)) THEN None
    ELSE LET reposToFetch == Slice(server.repositories, ReposToFetch)
         IN  Some(ConcatAll([r \in 1..Len(reposToFetch) |-> RepositoryPullRequests(r)]))

\* Math.ceil(n / batchSize): the passes of the loop over the ids
Batches(n) == (n + BatchSize - 1) \div BatchSize

\* The try around one batch of fetchWorkItems: the details of the ids
\* (b - 1) * 200 + 1 .. b * 200, nothing when the request fails.
WorkItemBatch(b) ==
    LET n    == Len(server.workItems)
        last == IF b * BatchSize < n THEN b * BatchSize ELSE n
    IN  IF Fails(Request("fetchWorkItems", b, 0)) THEN <<>>
        ELSE SubSeq(server.workItems, (b - 1) * BatchSize + 1, last)

\* fetchWorkItems: the WIQL query (request 0), then the details in batches;
\* the outer catch logs and rethrows.
fetchWorkItems ==
    IF Fails(Request("fetchWorkItems", 0, 0)) THEN None
    ELSE IF Len(server.workItems) = 0 THEN Some(<<>>)
    ELSE Some(ConcatAll([b \in 1..Batches(Len(server.workItems)) |-> WorkItemBatch(b)]))

\* The inner try of fetchPullRequestComments: the threads of one pull request
ThreadComments(r, p) ==
    IF Fails(Request("threads", r, p)) THEN 0
    ELSE SumSeq(server.repositories[r].pullRequests[p])

\* The try around one repository of fetchPullRequestComments
RepositoryComments(r) ==
    IF Fails(Request("pullrequests", r, 0)) THEN 0
    ELSE SumSeq([p \in 1..Len(server.repositories[r].pullRequests) |-> ThreadComments(r, p)])

\* The outer catch rethrowing, as in fetchCommits.
fetchPullRequestComments_Rethrows ==
    IF Fails(Request("repositories", 0, "fetchPullRequestComments")) THEN None
    ELSE LET reposToFetch == Slice(server.repositories, CommentRepositories)
         IN  Some(SumSeq([r \in 1..Len(reposToFetch) |-> RepositoryComments(r)]))

fetchPullRequestComments ==
    IF Fails(Request("repositories", 0, "fetchPullRequestComments")) THEN Some(0)
    ELSE LET reposToFetch == Slice(server.repositories, CommentRepositories)
         IN  Some(SumSeq([r \in 1..Len(reposToFetch) |-> RepositoryComments(r)]))

\* The inner try of fetchCommitChanges: the changes of one commit
CommitChanges(r, c) ==
    IF Fails(Request("changes", r, c)) THEN <<>>
    ELSE server.repositories[r].commits[c]

\* The try around one repository of fetchCommitChanges
RepositoryChanges(r) ==
    IF Fails(Request("commits", r, 0)) THEN <<>>
    ELSE ConcatAll([c \in 1..Len(server.repositories[r].commits) |-> CommitChanges(r, c)])

fetchCommitChanges ==
    IF Fails(Request("repositories", 0, "fetchCommitChanges")) THEN Some(<<>>)
    ELSE LET reposToFetch == Slice(server.repositories, ChangeRepositories)
         IN  Some(ConcatAll([r \in 1..Len(reposToFetch) |-> RepositoryChanges(r)]))

Fetches ==
    {"fetchCommits", "fetchPullRequests", "fetchWorkItems", "fetchPullRequestComments",
     "fetchCommitChanges"}

\* One promise of the Promise.all settles; a rejected one rejects the whole.
Settle(fetch, promise) ==
    /\ pc = "Promise.all"
    /\ fetch \notin done
    /\ done' = done \cup {fetch}
    /\ pc' = IF promise = None THEN "rejected" ELSE pc
    /\ UNCHANGED <<dateFrom, dateTo, today, variant, server, savedWrapped, calls,
                   runs, firstRun, outputVars>>

FetchCommits ==
    /\ Settle("fetchCommits", fetchCommits)
    /\ commits' = IF fetchCommits = None THEN commits ELSE Val(fetchCommits)
    /\ UNCHANGED <<pullRequests, workItems, prComments, fileChanges>>

FetchPullRequests ==
    /\ Settle("fetchPullRequests", fetchPullRequests)
    /\ pullRequests' = IF fetchPullRequests = None THEN pullRequests ELSE Val(fetchPullRequests)
    /\ UNCHANGED <<commits, workItems, prComments, fileChanges>>

FetchWorkItems ==
    /\ Settle("fetchWorkItems", fetchWorkItems)
    /\ workItems' = IF fetchWorkItems = None THEN workItems ELSE Val(fetchWorkItems)
    /\ UNCHANGED <<commits, pullRequests, prComments, fileChanges>>

FetchPullRequestComments ==
    /\ Settle("fetchPullRequestComments", fetchPullRequestComments)
    /\ prComments' = IF fetchPullRequestComments = None THEN prComments
                     ELSE Val(fetchPullRequestComments)
    /\ UNCHANGED <<commits, pullRequests, workItems, fileChanges>>

FetchCommitChanges ==
    /\ Settle("fetchCommitChanges", fetchCommitChanges)
    /\ fileChanges' = IF fetchCommitChanges = None THEN fileChanges
                      ELSE Val(fetchCommitChanges)
    /\ UNCHANGED <<commits, pullRequests, workItems, prComments>>

\* await Promise.all([...]) once all five have been fulfilled
AwaitPromiseAll ==
    /\ pc = "Promise.all"
    /\ done = Fetches
    /\ pc' = "calculatePrMergeStats"
    /\ UNCHANGED <<inputVars, outputVars, runs, firstRun, done>>

NextFetch ==
    \/ FetchCommits
    \/ FetchPullRequests
    \/ FetchWorkItems
    \/ FetchPullRequestComments
    \/ FetchCommitChanges
    \/ AwaitPromiseAll
    \/ Next

\* Two repositories: the first with two pull requests (threads of 2 and 1
\* comments, a thread of 3) and one commit, the second with one pull request
\* and two commits. Up to FetchMaxFailures of the requests fail.
FetchMaxFailures == 2

FetchRepositories ==
    <<[pullRequests |-> <<<<2, 1>>, <<3>>>>,
       commits |-> <<<<FileChange(Some(<<"a">>), "add", Some(40))>>>>],
      [pullRequests |-> <<<<4>>>>,
       commits |-> <<<<FileChange(Some(<<"b">>), "edit", Some(2))>>,
                     <<FileChange(Some(<<"c">>), "add", Some(1)),
                       FileChange(Some(<<"a">>), "delete", None)>>>>]>>

\* The commits and the pull requests of the two repositories, as fetchCommits
\* and fetchPullRequests are answered.
FetchCommitLists ==
    <<<<Commit(1, SomeDay, 10, Message)>>,
      <<Commit(2, SomeDay, 11, Message), Commit(3, SomeDay, 12, Message)>>>>

FetchPullRequestLists ==
    <<<<SomePullRequest,
        PullRequest(2, "active", Timestamp(SomeDay, 9), None, None)>>,
      <<PullRequest(3, "completed", Timestamp(SomeDay, 9), Some(Timestamp(SomeDay, 12)), None)>>>>

\* The requests of the three mandatory fetches: the repository list or the
\* WIQL query (0), a repository, a batch of work item details.
MandatoryRequests(batches) ==
    {Request(fetch, r, 0) : fetch \in {"fetchCommits", "fetchPullRequests"},
                            r \in 0..Len(FetchRepositories)}
        \cup {Request("fetchWorkItems", b, 0) : b \in 0..batches}

FetchRequests ==
    MandatoryRequests(1)
        \cup {Request("repositories", 0, fetch) :
                  fetch \in {"fetchPullRequestComments", "fetchCommitChanges"}}
        \cup {Request("pullrequests", r, 0) : r \in 1..Len(FetchRepositories)}
        \cup {Request("commits", r, 0) : r \in 1..Len(FetchRepositories)}
        \cup UNION {{Request("threads", r, p) : p \in 1..Len(FetchRepositories[r].pullRequests)} :
                       r \in 1..Len(FetchRepositories)}
        \cup UNION {{Request("changes", r, c) : c \in 1..Len(FetchRepositories[r].commits)} :
                       r \in 1..Len(FetchRepositories)}

InitFetch ==
    /\ \E failing \in {f \in SUBSET FetchRequests : Cardinality(f) <= FetchMaxFailures} :
           server = [repositories |-> FetchRepositories,
                     failing      |-> failing,
                     commits      |-> FetchCommitLists,
                     pullRequests |-> FetchPullRequestLists,
                     workItems    |-> <<WorkItem("Bug", "Done", Some(1), Some(3), None)>>]
    /\ commits = <<>> /\ pullRequests = <<>> /\ workItems = <<>>
    /\ prComments = 0 /\ fileChanges = <<>>
    /\ dateFrom = None /\ dateTo = None
    /\ today = SomeDay
    /\ variant = "azure-devops.ts"
    /\ pc = "Promise.all"
    /\ NothingComputed
    /\ NothingSaved

SpecFetch == InitFetch /\ [][NextFetch]_vars

\* The requests on the way to the threads of pull request p of repository r
C20_ThreadRequests(r, p) ==
    {Request("repositories", 0, "fetchPullRequestComments"), Request("pullrequests", r, 0),
     Request("threads", r, p)}

\* The requests on the way to the changes of commit c of repository r
C20_ChangeRequests(r, c) ==
    {Request("repositories", 0, "fetchCommitChanges"), Request("commits", r, 0),
     Request("changes", r, c)}

\* The comments of the threads that could be fetched
C20_CommentsFetched ==
    SumSeq([r \in 1..Len(server.repositories) |->
        SumSeq([p \in 1..Len(server.repositories[r].pullRequests) |->
            IF C20_ThreadRequests(r, p) \cap server.failing = {}
            THEN SumSeq(server.repositories[r].pullRequests[p]) ELSE 0])])

\* The changes of the commits that could be fetched, in the order asked
C20_ChangesFetched ==
    ConcatAll([r \in 1..Len(server.repositories) |->
        ConcatAll([c \in 1..Len(server.repositories[r].commits) |->
            IF C20_ChangeRequests(r, c) \cap server.failing = {}
            THEN server.repositories[r].commits[c] ELSE <<>>])])

C20_MainRequests ==
    {Request(fetch, 0, 0) : fetch \in {"fetchCommits", "fetchPullRequests", "fetchWorkItems"}}

\* C20: whatever requests of fetchPullRequestComments and fetchCommitChanges
\* fail, fetchAzureDevOpsData is rejected only by a failed fetch of commits,
\* pull requests or work items; the comment count is the total of the threads
\* that could be fetched (0 without the repository list), the file changes
\* are those of the commits that could be fetched (none without the
\* repository list), and the returned statistics count the commits, pull
\* requests and work items received.
C20_EnrichmentFailuresAreAbsorbed ==
    /\ pc = "rejected" => C20_MainRequests \cap server.failing # {}
    /\ "fetchPullRequestComments" \in done => prComments = C20_CommentsFetched
    /\ "fetchCommitChanges" \in done => fileChanges = C20_ChangesFetched
    /\ (done = Fetches /\ pc # "rejected") =>
           /\ commits = Val(fetchCommits)
           /\ pullRequests = Val(fetchPullRequests)
           /\ workItems = Val(fetchWorkItems)
    /\ HasRun("totalStats") =>
           /\ totalStats.totalCommits = Len(Val(fetchCommits))
           /\ totalStats.totalPullRequests = Len(Val(fetchPullRequests))
           /\ totalStats.totalWorkItems = Len(Val(fetchWorkItems))
           /\ totalStats.totalComments = C20_CommentsFetched

\* C20 reached: the repository list of fetchPullRequestComments and the
\* changes of the first commit of the second repository fail; the summary is
\* returned with 0 comments and the three changes of the other two commits.
C20_Witness ==
    /\ pc = "return"
    /\ server.failing = {Request("repositories", 0, "fetchPullRequestComments"),
                         Request("changes", 2, 1)}
    /\ prComments = 0
    /\ Len(fileChanges) = 3
    /\ totalStats.totalCommits = 3
    /\ totalStats.totalComments = 0

\* C20 reached with a partial total: the threads of the second pull request
\* of the first repository fail, 7 of the 10 comments are counted.
C20_WitnessPartialTotal ==
    /\ pc = "return"
    /\ server.failing = {Request("threads", 1, 2)}
    /\ prComments = 7
    /\ totalStats.totalComments = 7

-----------------------------------------------------------------------------
(* The storage of saved documents: DatabaseStorage of src/server/storage.ts  *)
(* over the table saved_wrapped of src/shared/schema.ts.                     *)

StorageMaxIds == 3

StorageMaxCalls == 3

\* generateId: 12 hexadecimal characters of 8 random bytes, any of the ids.
generateId == 1..StorageMaxIds

\* The ids a caller can ask for: the generated ones and one never generated.
StorageIds == 0..StorageMaxIds

\* Documents to save: two project names, two contents per name; the optional
\* field funFacts is absent (undefined) or present.
StorageDocuments ==
    [projectName : {"DVOI", "Other"}, version : {"1.0"},
     funFacts : {None, Some(<<"fact">>)}]

\* JSON.stringify of a document: the keys in the order of the object, a key
\* whose value is undefined is left out.
JsonStringify(data) ==
    <<<<"projectName", data.projectName>>, <<"version", data.version>>>>
        \o (IF data.funFacts = None THEN <<>> ELSE <<<<"funFacts", Val(data.funFacts)>>>>)

\* A jsonb column keeps the keys of an object by length, then by bytes.
JsonbKeys == <<"version", "funFacts", "projectName">>

Jsonb(json) ==
    LET Member(key) == SelectSeq(json, LAMBDA pair : pair[1] = key)
    IN Member(JsonbKeys[1]) \o Member(JsonbKeys[2]) \o Member(JsonbKeys[3])

\* The document read back from the column: a key that is absent reads undefined.
JsonParse(jsonb) ==
    LET Member(key) == \E i \in 1..Len(jsonb) : jsonb[i][1] = key
        Value(key) == jsonb[CHOOSE i \in 1..Len(jsonb) : jsonb[i][1] = key][2]
    IN [projectName |-> Value("projectName"),
        version     |-> Value("version"),
        funFacts    |-> IF Member("funFacts") THEN Some(Value("funFacts")) ELSE None]

\* db.insert(savedWrapped).values(row): id is the primary key, so a row whose
\* id is taken is refused (None: the insert throws) and the table is kept.
\* A variant that replaces the row on conflict:
Insert_OnConflictUpdate(table, row) ==
    Some({r \in table : r.id # row.id} \cup {row})

Insert(table, row) ==
    IF \E r \in table : r.id = row.id THEN None ELSE Some(table \cup {row})

\* db.select().from(savedWrapped).where(eq(savedWrapped.id, id)): no row or one.
Select(table, id) == {r \in table : r.id = id}

\* The SavedWrappedResult built from a row.
SavedWrappedResult(saved) ==
    [id |-> saved.id, projectName |-> saved.projectName,
     data |-> JsonParse(saved.data), createdAt |-> saved.createdAt]

SavedWrappedRow(id, data) ==
    [id |-> id, projectName |-> data.projectName,
     data |-> Jsonb(JsonStringify(data)), createdAt |-> today]

\* getSavedWrapped(id) on the table as it is: undefined (None) or the result.
getSavedWrapped(id) ==
    LET rows == Select(savedWrapped, id)
    IN IF rows = {} THEN None ELSE Some(SavedWrappedResult(CHOOSE saved \in rows : TRUE))

StorageUnchanged ==
    UNCHANGED <<commits, pullRequests, workItems, dateFrom, dateTo, prComments,
                fileChanges, today, variant, server, outputVars, pc, runs,
                firstRun, done>>

\* saveWrapped(data): a fresh id, one insert, the returned row as the result;
\* a refused insert rejects the call (result None).
SaveWrapped ==
    /\ pc = "storage"
    /\ Len(calls) < StorageMaxCalls
    /\ \E data \in StorageDocuments, id \in generateId :
           LET row == SavedWrappedRow(id, data)
               inserted == Insert(savedWrapped, row)
           IN /\ savedWrapped' = IF inserted = None THEN savedWrapped ELSE Val(inserted)
              /\ calls' = Append(calls,
                     [method |-> "saveWrapped", argument |-> data,
                      result |-> IF inserted = None THEN None
                                 ELSE Some(SavedWrappedResult(row))])
    /\ StorageUnchanged

\* getSavedWrapped(id): one select, undefined when there is no row.
GetSavedWrapped ==
    /\ pc = "storage"
    /\ Len(calls) < StorageMaxCalls
    /\ \E id \in StorageIds :
           calls' = Append(calls, [method |-> "getSavedWrapped", argument |-> id,
                                   result |-> getSavedWrapped(id)])
    /\ UNCHANGED savedWrapped
    /\ StorageUnchanged

NextStorage ==
    \/ SaveWrapped
    \/ GetSavedWrapped

InitStorage ==
    /\ commits = <<>> /\ pullRequests = <<>> /\ workItems = <<>>
    /\ dateFrom = None /\ dateTo = None
    /\ prComments = 0 /\ fileChanges = <<>>
    /\ today \in {SomeDay, AddDays(SomeDay, 1)}
    /\ variant = "azure-devops.ts"
    /\ server = None
    /\ pc = "storage"
    /\ NothingComputed
    /\ NothingSaved

SpecStorage == InitStorage /\ [][NextStorage]_vars

\* The calls of saveWrapped among the first n calls that returned the id.
C21_SavesThatReturned(id, n) ==
    {i \in 1..n : /\ calls[i].method = "saveWrapped"
                  /\ calls[i].result # None
                  /\ Val(calls[i].result).id = id}

\* What a load of the id has to yield after the first n calls: not found when
\* no save returned the id, else the document and project name of every save
\* that returned it.
C21_LoadsWhatWasSaved(id, n, loaded) ==
    IF C21_SavesThatReturned(id, n) = {} THEN loaded = None
    ELSE /\ loaded # None
         /\ \A i \in C21_SavesThatReturned(id, n) :
                /\ Val(loaded).data = calls[i].argument
                /\ Val(loaded).projectName = calls[i].argument.projectName
                /\ Val(loaded).id = id

\* C21: after any sequence of saves and loads, every load that was made and
\* every load that could be made now yields, for an id that saveWrapped(d)
\* returned, the document d with its project name, whatever was saved later,
\* and yields not-found for an id that no save returned.
C21_LoadYieldsTheSavedDocument ==
    /\ \A j \in 1..Len(calls) :
           calls[j].method = "getSavedWrapped" =>
               C21_LoadsWhatWasSaved(calls[j].argument, j - 1, calls[j].result)
    /\ \A id \in StorageIds :
           C21_LoadsWhatWasSaved(id, Len(calls), getSavedWrapped(id))

\* C21 reached: a document with fun facts is saved under id 1, another save
\* that draws id 1 again is refused, and the load of id 1 yields the first.
C21_Witness ==
    /\ Len(calls) = 3
    /\ calls[1].method = "saveWrapped" /\ calls[1].result # None
    /\ Val(calls[1].result).id = 1
    /\ calls[1].argument.funFacts # None
    /\ calls[2].method = "saveWrapped" /\ calls[2].result = None
    /\ calls[2].argument # calls[1].argument
    /\ calls[3].method = "getSavedWrapped" /\ calls[3].argument = 1
    /\ calls[3].result # None
    /\ Val(calls[3].result).data = calls[1].argument

\* C21 reached on the not-found side: after a save that returned id 1, the
\* load of id 2 is undefined.
C21_WitnessNotFound ==
    /\ Len(calls) = 2
    /\ calls[1].method = "saveWrapped" /\ calls[1].result # None
    /\ Val(calls[1].result).id = 1
    /\ calls[2].method = "getSavedWrapped" /\ calls[2].argument = 2
    /\ calls[2].result = None

-----------------------------------------------------------------------------
\* The contributor list is in descending order of commit count.
C22_DescendingByCommits(contributors) ==
    \A i \in 1..(Len(contributors) - 1) : contributors[i].commits >= contributors[i + 1].commits

\* C22: the call of calculateTop5 leaves the contributor list it receives as
\* it was, contents and order, so from then on, and in the returned document,
\* the list is in descending order of commit count.
C22_Top5LeavesContributorsUnchanged ==
    /\ [][pc = "calculateTop5" /\ pc' # pc => contributorStats' = contributorStats]_vars
    /\ [](HasRun("calculateTop5") => C22_DescendingByCommits(contributorStats))

\* C22 reached: the document is returned, the contributor with the most pull
\* requests opened is not the one with the most commits, and the list still
\* starts with the latter.
C22_Witness ==
    /\ pc = "return"
    /\ Len(contributorStats) >= 2
    /\ contributorStats[1].commits > contributorStats[2].commits
    /\ contributorStats[1].pullRequestsOpened < contributorStats[2].pullRequestsOpened
    /\ top5.mostPullRequestsOpened[1].name = contributorStats[2].name
    /\ top5.mostCommits[1].name = contributorStats[1].name

-----------------------------------------------------------------------------
(* The earlier adapters: src/unnamed/part_001 (Azure DevOps, no streak      *)
(* data) and src/unnamed/part_007 (GitHub).  Their statements from           *)
(* aggregateContributorStats to calculateTop5; the statements after them     *)
(* are given the fetched collections, never the contributor array, which     *)
(* the return statement places in the document as it then is.               *)

\* part_001: aggregateContributorStats and calculateTop5 have the text of the
\* first adapter's.
aggregateContributorStats_part001(cs, prs, wis) ==
    aggregateContributorStats_part009(cs, prs, wis)

calculateTop5_part001(contributors, cs) == calculateTop5_part009(contributors, cs)

\* The records of the GitHub API that part_007 reads.
GitHubCommit(login, name, date) ==
    [commit |-> [author |-> [name |-> name, date |-> date], message |-> Message],
     author |-> login]

GitHubPullRequest(user, requested_reviewers) ==
    [user |-> user, requested_reviewers |-> requested_reviewers]

GitHubIssue(state, labels, assignee) ==
    [state |-> state, labels |-> labels, assignee |-> assignee]

GitHubContributor(login, contributions) ==
    [login |-> login, contributions |-> contributions]

\* labelName.toLowerCase().includes("bug"), on the label names of the model
IncludesBug(labelName) == labelName \in {"bug", "Bug report"}

\* labelName.toLowerCase().includes("enhancement")
IncludesEnhancement(labelName) == labelName \in {"enhancement"}

\* const name = commit.author?.login || commit.commit.author.name
CommitLogin(c) == IF c.author = None THEN c.commit.author.name ELSE Val(c.author)

ReviewerLogins(pr) ==
    IF pr.requested_reviewers = None THEN <<>> ELSE Val(pr.requested_reviewers)

\* contributorMap of part_007 at the return statement, in insertion order:
\* the contributors of the API with their contributions, then the commit
\* authors (counted only when the API did not list them), then per pull
\* request its user and its requested reviewers; closed issues last.
ContributorMap_part007(cs, prs, issues, contributors) ==
    LET listed == MapSeq(contributors, LAMBDA c : c.login)
        names  == Distinct(listed \o MapSeq(cs, CommitLogin)
                      \o ConcatAll(MapSeq(prs, LAMBDA pr : <<pr.user>> \o ReviewerLogins(pr))))
        Contributions(name) ==
            LET of == SelectSeq(contributors, LAMBDA c : c.login = name)
            IN  of[Len(of)].contributions
        Closed(name) ==
            SelectSeq(issues, LAMBDA i : /\ i.assignee = Some(name)
                                         /\ i.state = "closed")
    IN  MapSeq(names, LAMBDA name :
            [name |-> name,
             commits |-> IF \E i \in 1..Len(listed) : listed[i] = name
                         THEN Contributions(name)
                         ELSE Count(cs, LAMBDA c : CommitLogin(c) = name),
             pullRequestsOpened |-> Count(prs, LAMBDA pr : pr.user = name),
             pullRequestsReviewed |->
                 Count(ConcatAll(MapSeq(prs, ReviewerLogins)), LAMBDA r : r = name),
             commentsWritten |-> 0,
             bugsFixed |->
                 Count(Closed(name),
                       LAMBDA i : \E l \in 1..Len(i.labels) : IncludesBug(i.labels[l])),
             storyPointsDone |-> 2 * Len(Closed(name))])

aggregateContributorStats_part007(cs, prs, issues, contributors) ==
    TopByCommits(ContributorMap_part007(cs, prs, issues, contributors))

\* aggregateModuleStats of part_007: one module per label that names neither
\* a bug nor an enhancement, the six with the most issues; "General" if none.
LabelMap_part007(issues) ==
    LET Labels(i) == SelectSeq(i.labels, LAMBDA l : ~IncludesBug(l) /\ ~IncludesEnhancement(l))
        names     == Distinct(ConcatAll(MapSeq(issues, Labels)))
        With(l)   == SelectSeq(ConcatAll(MapSeq(issues,
                         LAMBDA i : MapSeq(Labels(i), LAMBDA n : <<n, i.state>>))),
                               LAMBDA e : e[1] = l)
    IN  MapSeq(names, LAMBDA l :
            [name |-> l, commits |-> 0, pullRequests |-> Len(With(l)),
             storyPointsDone |-> 2 * Count(With(l), LAMBDA e : e[2] = "closed"),
             status |-> "In Progress"])

aggregateModuleStats_part007(issues) ==
    LET modules == Slice(StableSort(LabelMap_part007(issues),
                                    LAMBDA a, b : b.pullRequests - a.pullRequests),
                         TopModules)
    IN  IF Len(modules) = 0
        THEN <<[name |-> "General", commits |-> 0, pullRequests |-> Len(issues),
                storyPointsDone |-> 2 * Count(issues, LAMBDA i : i.state = "closed"),
                status |-> "In Progress"]>>
        ELSE modules

\* calculateTop5 of part_007: the text of part_001's, the commit date read
\* from commit.commit.author.date.
calculateTop5_part007(contributors, cs) ==
    calculateTop5_part009(contributors, MapSeq(cs, LAMBDA c : c.commit))

EarlierVariants == {"part_001", "part_007"}

\* const contributorStats = aggregateContributorStats(...)
CallAggregateContributorStats_Earlier ==
    /\ variant \in EarlierVariants
    /\ Goto("aggregateContributorStats", "aggregateModuleStats")
    /\ contributorMap' =
           IF variant = "part_001"
           THEN ContributorMap_part009(commits, pullRequests, workItems)
           ELSE ContributorMap_part007(commits, pullRequests, workItems, server.contributors)
    /\ contributorStats' =
           IF variant = "part_001"
           THEN aggregateContributorStats_part001(commits, pullRequests, workItems)
           ELSE aggregateContributorStats_part007(commits, pullRequests, workItems,
                                                  server.contributors)
    /\ UNCHANGED <<prMergeStats, activityPattern, streakData, codeChanges, moduleMap,
                   moduleStats, top5, highlights, funFacts, milestones, totalStats>>

\* const moduleStats = aggregateModuleStats(...)
CallAggregateModuleStats_Earlier ==
    /\ variant \in EarlierVariants
    /\ Goto("aggregateModuleStats", "calculateTop5")
    /\ moduleMap' = IF variant = "part_001" THEN ModuleMap(workItems)
                    ELSE LabelMap_part007(workItems)
    /\ moduleStats' = IF variant = "part_001" THEN aggregateModuleStats(workItems)
                      ELSE aggregateModuleStats_part007(workItems)
    /\ UNCHANGED <<prMergeStats, activityPattern, streakData, codeChanges, contributorMap,
                   contributorStats, top5, highlights, funFacts, milestones, totalStats>>

\* const top5 = calculateTop5(contributorStats, commits): the rankings, and
\* contributorStats left in the order of the last sort in place.
CallCalculateTop5_Earlier ==
    /\ variant \in EarlierVariants
    /\ Goto("calculateTop5", "generateHighlights")
    /\ LET ranked == IF variant = "part_001"
                     THEN calculateTop5_part001(contributorStats, commits)
                     ELSE calculateTop5_part007(contributorStats, commits)
       IN  /\ top5' = ranked.top5
           /\ contributorStats' = ranked.contributors
    /\ UNCHANGED <<prMergeStats, activityPattern, streakData, codeChanges, contributorMap,
                   moduleMap, moduleStats, highlights, funFacts, milestones, totalStats>>

NextEarlier ==
    \/ CallAggregateContributorStats_Earlier
    \/ CallAggregateModuleStats_Earlier
    \/ CallCalculateTop5_Earlier

EarlierMaxCommits == 2

EarlierReviewers == {None, Some(<<>>), Some(<<2>>), Some(<<3, 2>>)}

InitEarlier_part001 ==
    /\ variant = "part_001"
    /\ server = None
    /\ commits \in SeqsUpTo({Commit(n, SomeDay, 10, Message) : n \in 1..2}, EarlierMaxCommits)
    /\ pullRequests \in {<<>>} \cup
           {<<PullRequest(u, "completed", Timestamp(SomeDay, 9),
                          Some(Timestamp(SomeDay, 12)), r)>> :
                u \in 1..2, r \in EarlierReviewers}
    /\ workItems \in {<<>>, <<WorkItem("Bug", "Done", Some(1), Some(3), None)>>}

InitEarlier_part007 ==
    /\ variant = "part_007"
    /\ server \in {[contributors |-> c] :
                      c \in {<<>>, <<GitHubContributor(1, 5), GitHubContributor(2, 3)>>}}
    /\ commits \in SeqsUpTo({GitHubCommit(Some(1), 1, Timestamp(SomeDay, 10)),
                         GitHubCommit(None, 2, Timestamp(SomeDay, 10))},
                            EarlierMaxCommits)
    /\ pullRequests \in {<<>>} \cup
           {<<GitHubPullRequest(u, r)>> : u \in 1..2, r \in EarlierReviewers}
    /\ workItems \in {<<>>, <<GitHubIssue("closed", <<"Bug report", "docs">>, Some(1))>>,
                      <<GitHubIssue("open", <<"enhancement">>, None)>>}

InitEarlier ==
    /\ InitEarlier_part001 \/ InitEarlier_part007
    /\ dateFrom = None /\ dateTo = None
    /\ prComments = 0
    /\ fileChanges = <<>>
    /\ today = SomeDay
    /\ pc = "aggregateContributorStats"
    /\ NothingComputed
    /\ NothingSaved

SpecEarlier == InitEarlier /\ [][NextEarlier]_vars

\* C23: in the earlier adapters the contributor list that the document
\* returns, the array as calculateTop5 leaves it, is in descending order of
\* commit count.
C23_ContributorsDescendingAfterTop5 ==
    HasRun("calculateTop5") => C22_DescendingByCommits(contributorStats)

\* What does hold of the earlier adapters: the list is in descending commit
\* order between aggregateContributorStats and calculateTop5, and calculateTop5
\* keeps its contents, leaving it in descending order of comments written,
\* all 0 here, hence of pull requests reviewed.
C23_ContributorsPermutedByTop5 ==
    /\ HasRun("aggregateContributorStats") /\ ~HasRun("calculateTop5") =>
           C22_DescendingByCommits(contributorStats)
    /\ HasRun("calculateTop5") =>
           /\ Len(contributorStats) = Len(TopByCommits(contributorMap))
           /\ Range(contributorStats) = Range(TopByCommits(contributorMap))
           /\ \A i \in 1..(Len(contributorStats) - 1) :
                  contributorStats[i].pullRequestsReviewed
                      >= contributorStats[i + 1].pullRequestsReviewed

\* C23 refuted in part_001: author 1 has two commits, author 2 opened the one
\* pull request; the list is returned with author 2 first.
C23_FewerCommitsFirst_part001 ==
    /\ variant = "part_001"
    /\ HasRun("calculateTop5")
    /\ Len(contributorStats) = 2
    /\ contributorStats[1].commits = 0
    /\ contributorStats[2].commits = 2
    /\ top5.mostCommits[1].name = contributorStats[2].name

\* C23 refuted in part_007: the reviewer with no contribution stands first.
C23_FewerCommitsFirst_part007 ==
    /\ variant = "part_007"
    /\ HasRun("calculateTop5")
    /\ Len(contributorStats) >= 2
    /\ contributorStats[1].commits < contributorStats[2].commits
    /\ contributorStats[1].pullRequestsReviewed > 0

-----------------------------------------------------------------------------
(* Inputs of the commit milestones: commits out of order and at equal        *)
(* times, with an empty message, a short one and one of 60 characters.       *)

HalfwayMaxCommits == 3

LongMessage == Repeat("a", DescriptionLength) \o Repeat("b", 10)

HalfwayCommitValues ==
    {Commit(1, t[1], t[2], msg) :
        t \in {<<RangeStart, 9>>, <<RangeStart, 17>>, <<SomeDay, 9>>},
        msg \in {<<>>, Message, LongMessage}}

InitHalfway ==
    /\ commits \in SeqsUpTo(HalfwayCommitValues, HalfwayMaxCommits)
    /\ pullRequests = <<>>
    /\ workItems = <<>>
    /\ dateFrom \in {None, Some(SomeDay)}
    /\ dateTo = None
    /\ prComments = 0
    /\ fileChanges = <<>>
    /\ today = SomeDay
    /\ Fetched

SpecHalfway == InitHalfway /\ [][Next]_vars

C24_Entry(title) == CHOOSE m \in Range(milestones) : m.title = title

C24_Time(i) == GetTime(commits[i].author.date)

\* The commits that stand before position k (counted from 0) in every
\* ascending order are those strictly earlier than commit i, the commits up
\* to position k include those not later: commit i can stand at position k.
C24_CanStandAt(i, k) ==
    /\ Cardinality({j \in 1..Len(commits) : C24_Time(j) < C24_Time(i)}) <= k
    /\ k < Cardinality({j \in 1..Len(commits) : C24_Time(j) <= C24_Time(i)})

\* The earliest commit, the first of the list among those of the earliest time.
C24_Earliest ==
    CHOOSE i \in 1..Len(commits) :
        /\ \A j \in 1..Len(commits) : C24_Time(i) <= C24_Time(j)
        /\ \A j \in 1..(i - 1) : C24_Time(j) > C24_Time(i)

C24_First50(message) ==
    [k \in 1..(IF Len(message) < 50 THEN Len(message) ELSE 50) |-> message[k]]

\* C24: for n > 0 commits, "Halfway Point" is dated at a commit that stands at
\* index floor(n / 2) of the list in ascending time order and states
\* floor(n / 2) commits so far, and "First Commit" is dated at the earliest
\* commit and carries the first 50 characters of its message, or
\* "Initial commit" when the message is empty.
C24_HalfwayAndFirstCommit ==
    HasRun("generateMilestones") /\ Len(commits) > 0 =>
        LET n == Len(commits)
        IN  /\ \E m \in Range(milestones) : m.title = "Halfway Point"
            /\ \E m \in Range(milestones) : m.title = "First Commit"
            /\ C24_Entry("Halfway Point").n = n \div 2
            /\ C24_Entry("Halfway Point").description = "commits so far"
            /\ \E i \in 1..n :
                   /\ C24_CanStandAt(i, n \div 2)
                   /\ C24_Entry("Halfway Point").date = DatePart(commits[i].author.date)
            /\ C24_Entry("First Commit").date = DatePart(commits[C24_Earliest].author.date)
            /\ C24_Entry("First Commit").text =
                   IF commits[C24_Earliest].comment = <<>>
                   THEN <<"I", "n", "i", "t", "i", "a", "l", " ", "c", "o", "m", "m", "i", "t">>
                   ELSE C24_First50(commits[C24_Earliest].comment)

\* C24 reached: three commits given latest first; the halfway point is the
\* middle one in time with 1 commit so far, the first commit is the last of
\* the list and its 60 characters are cut to 50.
C24_Witness ==
    /\ pc = "return"
    /\ Len(commits) = 3
    /\ C24_Time(1) > C24_Time(2) /\ C24_Time(2) > C24_Time(3)
    /\ commits[3].comment = LongMessage
    /\ C24_Entry("First Commit").text = Repeat("a", 50)
    /\ C24_Entry("First Commit").date = RangeStart
    /\ C24_Entry("Halfway Point").n = 1
    /\ C24_Entry("Halfway Point").date = DatePart(commits[2].author.date)

\* C24 reached with an empty message: one commit, "Initial commit", and the
\* halfway point on that commit with 0 commits so far.
C24_WitnessInitialCommit ==
    /\ pc = "return"
    /\ Len(commits) = 1
    /\ commits[1].comment = <<>>
    /\ C24_Entry("First Commit").text = InitialCommit
    /\ C24_Entry("Halfway Point").n = 0
    /\ C24_Entry("Halfway Point").date = DatePart(commits[1].author.date)

-----------------------------------------------------------------------------
(* Inputs of generateFunFacts: no commit, or one commit a day at one hour    *)
(* of the day for 1, 3 or 7 days from a Friday on; no pull request, one      *)
(* merged within hours or within days, or one still active; no work item,    *)
(* 51 or 101 done ones.  Run twice on the same collections.                  *)

FactMaxDays == 7

FactHours == 0..23

FactCommits ==
    {<<>>} \cup
    {[i \in 1..k |-> Commit(1, AddDays(Friday, i - 1), h, Message)] :
        k \in {1, 3, FactMaxDays}, h \in FactHours}

FactPullRequests ==
    {<<>>,
     <<PullRequest(1, "completed", Timestamp(Friday, 9), Some(Timestamp(Friday, 12)), None)>>,
     <<PullRequest(1, "completed", Timestamp(Friday, 9), Some(Timestamp(Monday, 9)), None)>>,
     <<PullRequest(1, "active", Timestamp(Friday, 9), None, None)>>}

FactWorkItems ==
    {Repeat(WorkItem("Task", "Done", None, None, None), n) : n \in {0, 51, 101}}

InitFacts ==
    /\ commits \in FactCommits
    /\ pullRequests \in FactPullRequests
    /\ workItems \in FactWorkItems
    /\ dateFrom = None /\ dateTo = None
    /\ prComments = 0
    /\ fileChanges = <<>>
    /\ today = SomeDay
    /\ Fetched

SpecFacts == InitFacts /\ [][NextTwice]_vars

\* The templates of generateFunFacts in the order of its statements.
C25_Templates ==
    <<"favorite day to code", "Night owl detected", "Early bird", "Lightning fast",
      "PRs took days on average", "Fastest PR merged in hours", "day commit streak",
      "Longest commit streak", "commits per active day", "Weekend warrior",
      "PR approval rate", "work items completed", "work items shipped",
      "Morning coffee coder", "Post-lunch productivity", "Evening enthusiast",
      "Moonlight developer", "Vampire coder">>

C25_Position(fact) ==
    CHOOSE i \in 1..Len(C25_Templates) : C25_Templates[i] = fact.kind

-----------------------------------------------------------------------------
\* A sentence of the template is among the fun facts.
C26_Emits(kind) == \E i \in 1..Len(funFacts) : funFacts[i].kind = kind

C26_HourPersonalities ==
    {"Morning coffee coder", "Post-lunch productivity", "Evening enthusiast",
     "Moonlight developer", "Vampire coder"}

\* C26: when the commit list is empty, the fun facts hold no favourite-day
\* sentence, no night-owl or early-bird sentence and no hour-personality
\* sentence.
C26_NoActivitySentenceWithoutCommits ==
    HasRun("generateFunFacts") /\ commits = <<>> =>
        /\ ~C26_Emits("favorite day to code")
        /\ ~C26_Emits("Night owl detected")
        /\ ~C26_Emits("Early bird")
        /\ \A kind \in C26_HourPersonalities : ~C26_Emits(kind)

\* What the code does without commits: the histograms are all 0, the busiest
\* hour is 0 and the busiest day "Sunday", and the fun facts name Sunday the
\* favourite day, a night owl at 0:00 and the vampire coder, and never the
\* early bird.
C26_EmptyListReadAsMidnightSunday ==
    HasRun("generateFunFacts") /\ commits = <<>> =>
        /\ activityPattern.busiestHour = 0
        /\ activityPattern.busiestDay = "Sunday"
        /\ C26_Emits("favorite day to code")
        /\ C26_Emits("Night owl detected")
        /\ C26_Emits("Vampire coder")
        /\ ~C26_Emits("Early bird")

\* C26 refuted: no commit, no pull request, no work item, and the fun facts
\* are the three sentences about commit activity.
C26_ThreeActivitySentencesWithoutCommits ==
    /\ pc = "return"
    /\ commits = <<>> /\ pullRequests = <<>> /\ workItems = <<>>
    /\ Len(funFacts) = 3
    /\ funFacts[1].kind = "favorite day to code" /\ funFacts[1].label = "Sunday"
    /\ funFacts[2].kind = "Night owl detected" /\ funFacts[2].n = 0
    /\ funFacts[3].kind = "Vampire coder"

-----------------------------------------------------------------------------
\* C29: the early-bird sentence is emitted for every busiest hour from 5
\* through 8, the night-owl and early-bird sentences are never both emitted,
\* and the night-owl sentence is never emitted when the peak-productivity
\* label is "Morning".
C29_EarlyBirdFromFiveNightOwlNeverInMorning ==
    HasRun("generateFunFacts") =>
        /\ activityPattern.busiestHour \in 5..8 => C26_Emits("Early bird")
        /\ ~(C26_Emits("Night owl detected") /\ C26_Emits("Early bird"))
        /\ activityPattern.peakProductivityTime = "Morning" => ~C26_Emits("Night owl detected")

\* What the code does: the night owl is tested first and takes hour 5, so
\* the early bird is emitted from 6 through 8 only; never both.
C29_NightOwlThroughFiveEarlyBirdFromSix ==
    HasRun("generateFunFacts") =>
        /\ C26_Emits("Early bird") <=> activityPattern.busiestHour \in 6..8
        /\ C26_Emits("Night owl detected") <=>
               (activityPattern.busiestHour >= 22 \/ activityPattern.busiestHour <= 5)
        /\ ~(C26_Emits("Night owl detected") /\ C26_Emits("Early bird"))

\* C29 refuted: commits at 5:00, the label is "Morning", the night owl is
\* emitted with hour 5 and the early bird is not.
C29_NightOwlAtFive ==
    /\ pc = "return"
    /\ Len(commits) > 0
    /\ activityPattern.busiestHour = 5
    /\ activityPattern.peakProductivityTime = "Morning"
    /\ funFacts[2].kind = "Night owl detected" /\ funFacts[2].n = 5
    /\ ~C26_Emits("Early bird")

-----------------------------------------------------------------------------
\* The three leaderboards with the field each ranks.
C27_Fields == {"pullRequestsOpened", "pullRequestsReviewed", "commentsWritten"}

C27_Leaderboard(field) ==
    IF field = "pullRequestsOpened" THEN top5.mostPullRequestsOpened
    ELSE IF field = "pullRequestsReviewed" THEN top5.mostPullRequestsReviewed
    ELSE top5.mostCommentsWritten

\* The leaderboard has at most 5 entries in descending order of the field,
\* each the name and value of a contributor of the set, and no contributor
\* of the set that it leaves out has a strictly larger value than one it lists.
C27_IsTop5Of(field, set) ==
    LET board  == C27_Leaderboard(field)
        Listed(c) == \E i \in 1..Len(board) : board[i].name = c.name
    IN  /\ Len(board) <= 5
        /\ \A i \in 1..(Len(board) - 1) : board[i][field] >= board[i + 1][field]
        /\ \A i \in 1..Len(board) :
               \E k \in 1..Len(set) : /\ set[k].name = board[i].name
                                      /\ set[k][field] = board[i][field]
        /\ \A k \in 1..Len(set) :
               ~Listed(set[k]) => \A i \in 1..Len(board) : set[k][field] <= board[i][field]

\* C27: each contributor leaderboard is a true top 5 of the whole aggregated
\* contributor set, the full contributor map.
C27_LeaderboardsAreTop5OfContributorMap ==
    HasRun("calculateTop5") => \A field \in C27_Fields : C27_IsTop5Of(field, contributorMap)

\* C27 as amended: each contributor leaderboard is a true top 5 of the
\* contributor list of the document, the ten contributors with the most
\* commits, and holds five entries when that list has five or more.
C27_LeaderboardsAreTop5OfContributorList ==
    HasRun("calculateTop5") =>
        \A field \in C27_Fields :
            /\ C27_IsTop5Of(field, contributorStats)
            /\ Len(C27_Leaderboard(field)) =
                   (IF Len(contributorStats) < 5 THEN Len(contributorStats) ELSE 5)

\* C27 reached: eleven authors, the one with the fewest commits opened the
\* only pull request and is cut from the contributor list; the leaderboard
\* of pull requests opened lists five contributors with none, and the
\* leaderboard of reviews lists reviewers that the list kept.
C27_Witness ==
    /\ pc = "return"
    /\ Len(contributorMap) = 11
    /\ Len(contributorStats) = 10
    /\ \E k \in 1..Len(contributorMap) :
           /\ contributorMap[k].pullRequestsOpened = 1
           /\ \A i \in 1..Len(contributorStats) : contributorStats[i].name # contributorMap[k].name
    /\ Len(top5.mostPullRequestsOpened) = 5
    /\ top5.mostPullRequestsOpened[1].pullRequestsOpened = 0
    /\ top5.mostPullRequestsReviewed[1].pullRequestsReviewed = 1
    /\ top5.mostPullRequestsReviewed[5].pullRequestsReviewed = 1

-----------------------------------------------------------------------------
(* The mandatory fetches under failure: the two repositories of              *)
(* FetchRepositories and 401 work items, whose details take three batches    *)
(* (200 tasks, 200 bugs, one user story); up to FetchMaxFailures of the      *)
(* requests of fetchCommits, fetchPullRequests and fetchWorkItems fail.      *)

MandatoryWorkItems ==
    Repeat(WorkItem("Task", "Active", None, None, None), BatchSize)
        \o Repeat(WorkItem("Bug", "Done", Some(1), None, None), BatchSize)
        \o <<WorkItem("User Story", "Done", Some(2), Some(3), None)>>

InitMandatory ==
    /\ \E failing \in {f \in SUBSET MandatoryRequests(Batches(Len(MandatoryWorkItems))) :
                           Cardinality(f) <= FetchMaxFailures} :
           server = [repositories |-> FetchRepositories,
                     failing      |-> failing,
                     commits      |-> FetchCommitLists,
                     pullRequests |-> FetchPullRequestLists,
                     workItems    |-> MandatoryWorkItems]
    /\ commits = <<>> /\ pullRequests = <<>> /\ workItems = <<>>
    /\ prComments = 0 /\ fileChanges = <<>>
    /\ dateFrom = None /\ dateTo = None
    /\ today = SomeDay
    /\ variant = "azure-devops.ts"
    /\ pc = "Promise.all"
    /\ NothingComputed
    /\ NothingSaved

SpecMandatory == InitMandatory /\ [][NextFetch]_vars

\* The lists of the repositories, or the batches, whose request of the fetch
\* did not fail, one after the other in the order asked.
C28_Kept(fetch, lists) ==
    ConcatAll([r \in 1..Len(lists) |->
        IF Request(fetch, r, 0) \in server.failing THEN <<>> ELSE lists[r]])

\* The work items of the server in batches of 200: batch b holds the items
\* at the positions (b - 1) * 200 + 1 to b * 200, as far as there are any.
C28_Batches ==
    LET n == Len(server.workItems)
    IN  [b \in 1..((n + 199) \div 200) |->
            [i \in 1..(IF n - (b - 1) * 200 < 200 THEN n - (b - 1) * 200 ELSE 200) |->
                server.workItems[(b - 1) * 200 + i]]]

\* The repository-list request of fetchCommits or fetchPullRequests, or the
\* WIQL query, fails.
C28_ListRequestFails ==
    \E fetch \in {"fetchCommits", "fetchPullRequests", "fetchWorkItems"} :
        Request(fetch, 0, 0) \in server.failing

\* C28: a failed request for one repository, or for one batch of work item
\* details, is skipped and what the other repositories and batches return is
\* received in order; a failed repository-list request or WIQL query rejects
\* fetchAzureDevOpsData, which then produces no document.
C28_MandatoryFetchesSkipOrPropagate ==
    /\ ("fetchCommits" \in done /\ Request("fetchCommits", 0, 0) \notin server.failing) =>
           commits = C28_Kept("fetchCommits", server.commits)
    /\ ("fetchPullRequests" \in done
            /\ Request("fetchPullRequests", 0, 0) \notin server.failing) =>
           pullRequests = C28_Kept("fetchPullRequests", server.pullRequests)
    /\ ("fetchWorkItems" \in done /\ Request("fetchWorkItems", 0, 0) \notin server.failing) =>
           workItems = C28_Kept("fetchWorkItems", C28_Batches)
    /\ pc = "rejected" => /\ C28_ListRequestFails
                          /\ totalStats = None /\ top5 = None /\ contributorStats = None
                          /\ highlights = None /\ milestones = None
    /\ C28_ListRequestFails => pc \in {"Promise.all", "rejected"}
    /\ \A fetch \in {"fetchCommits", "fetchPullRequests", "fetchWorkItems"} :
           (fetch \in done /\ Request(fetch, 0, 0) \in server.failing) => pc = "rejected"
    /\ (done = Fetches /\ ~C28_ListRequestFails) => pc # "rejected"

\* C28 reached: the commits of the first repository and the second batch of
\* work item details fail; the document is returned on the commits of the
\* second repository and on the 201 work items of the first and third batch.
C28_Witness ==
    /\ pc = "return"
    /\ server.failing = {Request("fetchCommits", 1, 0), Request("fetchWorkItems", 2, 0)}
    /\ commits = server.commits[2]
    /\ Len(pullRequests) = 3
    /\ Len(workItems) = 201
    /\ workItems[200].type = "Task" /\ workItems[201].type = "User Story"
    /\ totalStats.totalCommits = 2
    /\ totalStats.totalWorkItems = 201

\* C28 reached on the propagating side: the WIQL query fails, the run is
\* rejected and nothing has been computed.
C28_WitnessRejected ==
    /\ pc = "rejected"
    /\ server.failing = {Request("fetchWorkItems", 0, 0)}
    /\ "fetchCommits" \in done /\ Len(commits) = 3
    /\ totalStats = None


-----------------------------------------------------------------------------
(* Inputs of the streak ranking: more committing authors than the ranking    *)
(* keeps, extra commits that lengthen the streaks of two of them, and a pull *)
(* request whose author and reviewer have no commit.                         *)

LongestMaxExtra == 2

LongestAuthors == 1..(Top5Size + 1)

LongestExtraCommits ==
    {Commit(a, StreakDays[d], 10, Message) : a \in {2, Top5Size + 1}, d \in 2..3}

LongestCommits ==
    {<<>>} \cup
    {[i \in LongestAuthors |-> Commit(i, StreakDays[1], 10, Message)] \o extra :
        extra \in SeqsUpTo(LongestExtraCommits, LongestMaxExtra)}

LongestPullRequests ==
    {<<>>,
     <<PullRequest(Top5Size + 2, "active", Timestamp(SomeDay, 9), None,
                   Some(<<Top5Size + 3>>))>>}

InitLongest ==
    /\ commits \in LongestCommits
    /\ pullRequests \in LongestPullRequests
    /\ workItems = <<>>
    /\ dateFrom = None /\ dateTo = None
    /\ prComments = 0
    /\ fileChanges = <<>>
    /\ today = SomeDay
    /\ Fetched

SpecLongest == InitLongest /\ [][Next]_vars

C30_Authors == {commits[i].author.name : i \in 1..Len(commits)}

\* The number of distinct dates on which the author has a commit.
C30_DistinctDates(author) ==
    Cardinality({DatePart(commits[i].author.date) :
                    i \in {j \in 1..Len(commits) : commits[j].author.name = author}})

\* C30: longestStreak is the largest of the authors' streaks and is 0 exactly
\* for the empty commit list; every author with a commit has a streak of at
\* least 1 and at most the number of distinct dates of the author's commits;
\* a contributor without commits has longestStreak 0 and is not listed in
\* top5.longestStreaks, which has at most 5 entries in descending order of
\* streak; the returned stats.longestStreak is that largest streak.
C30_LongestStreakBoundsAndRanking ==
    /\ HasRun("calculateStreaks") =>
           LET streak == streakData.streaksByAuthor
           IN  /\ DOMAIN streak = C30_Authors
               /\ \A a \in C30_Authors :
                      /\ 1 <= streak[a]
                      /\ streak[a] <= C30_DistinctDates(a)
                      /\ streak[a] <= streakData.longestStreak
               /\ C30_Authors # {} =>
                      \E a \in C30_Authors : streak[a] = streakData.longestStreak
               /\ (streakData.longestStreak = 0) <=> (commits = <<>>)
    /\ HasRun("aggregateContributorStats") =>
           \A i \in 1..Len(contributorStats) :
               /\ contributorStats[i].commits = 0 => contributorStats[i].longestStreak = 0
               /\ contributorStats[i].commits > 0 =>
                      contributorStats[i].longestStreak =
                          streakData.streaksByAuthor[contributorStats[i].name]
    /\ HasRun("calculateTop5") =>
           /\ Len(top5.longestStreaks) <= 5
           /\ \A i \in 1..Len(top5.longestStreaks) :
                  /\ top5.longestStreaks[i].name \in C30_Authors
                  /\ top5.longestStreaks[i].commits > 0
                  /\ i > 1 => top5.longestStreaks[i - 1].commits
                                  >= top5.longestStreaks[i].commits
    /\ HasRun("totalStats") =>
           totalStats.longestStreak = streakData.longestStreak

\* C30 witness: six authors with a commit, the last with commits on three
\* consecutive dates, and a pull request by a contributor without commits:
\* the ranking holds five entries led by the streak of 3, the overall longest
\* streak is 3, and the pull request's author is a contributor with streak 0.
C30_Witness ==
    /\ HasRun("totalStats")
    /\ Len(top5.longestStreaks) = 5
    /\ top5.longestStreaks[1].name = Top5Size + 1
    /\ top5.longestStreaks[1].commits = 3
    /\ top5.longestStreaks[5].commits = 1
    /\ totalStats.longestStreak = 3
    /\ \E i \in 1..Len(contributorStats) :
           /\ contributorStats[i].name = Top5Size + 2
           /\ contributorStats[i].commits = 0
           /\ contributorStats[i].longestStreak = 0

\* C30 witness: without commits the longest streak is 0 and the ranking empty.
C30_WitnessNoCommits ==
    /\ HasRun("totalStats")
    /\ commits = <<>>
    /\ totalStats.longestStreak = 0
    /\ top5.longestStreaks = <<>>

=============================================================================
